---- MODULE Spec2Model ----
(***************************************************************************)
(* A model of newel's core evaluator: the scalar type lattice              *)
(* (scalarty.rs), the chunk/vector constants (consts.rs), the kernel       *)
(* families and skeletons (ops.rs, macros.rs) and the router (eval.rs).    *)
(***************************************************************************)
EXTENDS Integers, Sequences, FiniteSets, TLC

(***************************************************************************)
(* Scalar types (scalarty.rs)                                              *)
(***************************************************************************)

\* enum ScalarTy: the thirteen variants, under the names of the source.
ScalarTy ==
    {"TBool", "TU8", "TU16", "TU32", "TU64", "TU128",
     "TI8", "TI16", "TI32", "TI64", "TI128", "TF32", "TF64"}

\* JoinTable with the (TF32, TU64) arm returning TF32: a slip of one arm.
JoinTableOneArmOff ==
    { \* every arm of the source except (TF32, TU64), which returns TF32 here
      <<"TU8", "TU16", "TU16">>, <<"TU8", "TU32", "TU32">>,
      <<"TU8", "TU64", "TU64">>, <<"TU8", "TU128", "TU128">>,
      <<"TU16", "TU32", "TU32">>, <<"TU16", "TU64", "TU64">>,
      <<"TU16", "TU128", "TU128">>, <<"TU32", "TU64", "TU64">>,
      <<"TU32", "TU128", "TU128">>, <<"TU64", "TU128", "TU128">>,
      <<"TI8", "TI16", "TI16">>, <<"TI8", "TI32", "TI32">>,
      <<"TI8", "TI64", "TI64">>, <<"TI8", "TI128", "TI128">>,
      <<"TI16", "TI32", "TI32">>, <<"TI16", "TI64", "TI64">>,
      <<"TI16", "TI128", "TI128">>, <<"TI32", "TI64", "TI64">>,
      <<"TI32", "TI128", "TI128">>, <<"TI64", "TI128", "TI128">>,
      <<"TU8", "TI8", "TI16">>, <<"TU8", "TI16", "TI16">>,
      <<"TU8", "TI32", "TI32">>, <<"TU8", "TI64", "TI64">>,
      <<"TU8", "TI128", "TI128">>, <<"TU16", "TI16", "TI32">>,
      <<"TU16", "TI32", "TI32">>, <<"TU16", "TI64", "TI64">>,
      <<"TU16", "TI128", "TI128">>, <<"TU32", "TI32", "TI64">>,
      <<"TU32", "TI64", "TI64">>, <<"TU32", "TI128", "TI128">>,
      <<"TU64", "TI64", "TI128">>, <<"TU64", "TI128", "TI128">>,
      <<"TU128", "TI128", "TF64">>,
      <<"TF32", "TU8", "TF32">>, <<"TF32", "TU16", "TF32">>,
      <<"TF32", "TU32", "TF32">>, <<"TF32", "TU64", "TF32">>,
      <<"TF32", "TU128", "TF64">>, <<"TF32", "TI8", "TF32">>,
      <<"TF32", "TI16", "TF32">>, <<"TF32", "TI32", "TF32">>,
      <<"TF32", "TI64", "TF64">>, <<"TF32", "TI128", "TF64">> }

\* The explicit arms of the match in ScalarTy::join, in source order, as
\* <<self, other, result>>. The wildcard arm (TF64, _) and the two guarded
\* fall-through arms are in JoinArm.
JoinTable ==
    { \* unsigned \/ unsigned
      <<"TU8", "TU16", "TU16">>, <<"TU8", "TU32", "TU32">>,
      <<"TU8", "TU64", "TU64">>, <<"TU8", "TU128", "TU128">>,
      <<"TU16", "TU32", "TU32">>, <<"TU16", "TU64", "TU64">>,
      <<"TU16", "TU128", "TU128">>, <<"TU32", "TU64", "TU64">>,
      <<"TU32", "TU128", "TU128">>, <<"TU64", "TU128", "TU128">>,
      \* signed \/ signed
      <<"TI8", "TI16", "TI16">>, <<"TI8", "TI32", "TI32">>,
      <<"TI8", "TI64", "TI64">>, <<"TI8", "TI128", "TI128">>,
      <<"TI16", "TI32", "TI32">>, <<"TI16", "TI64", "TI64">>,
      <<"TI16", "TI128", "TI128">>, <<"TI32", "TI64", "TI64">>,
      <<"TI32", "TI128", "TI128">>, <<"TI64", "TI128", "TI128">>,
      \* unsigned \/ signed
      <<"TU8", "TI8", "TI16">>, <<"TU8", "TI16", "TI16">>,
      <<"TU8", "TI32", "TI32">>, <<"TU8", "TI64", "TI64">>,
      <<"TU8", "TI128", "TI128">>, <<"TU16", "TI16", "TI32">>,
      <<"TU16", "TI32", "TI32">>, <<"TU16", "TI64", "TI64">>,
      <<"TU16", "TI128", "TI128">>, <<"TU32", "TI32", "TI64">>,
      <<"TU32", "TI64", "TI64">>, <<"TU32", "TI128", "TI128">>,
      <<"TU64", "TI64", "TI128">>, <<"TU64", "TI128", "TI128">>,
      <<"TU128", "TI128", "TF64">>,
      \* float
      <<"TF32", "TU8", "TF32">>, <<"TF32", "TU16", "TF32">>,
      <<"TF32", "TU32", "TF32">>, <<"TF32", "TU64", "TF64">>,
      <<"TF32", "TU128", "TF64">>, <<"TF32", "TI8", "TF32">>,
      <<"TF32", "TI16", "TF32">>, <<"TF32", "TI32", "TF32">>,
      <<"TF32", "TI64", "TF64">>, <<"TF32", "TI128", "TF64">> }

\* A variant of JoinArm in which F32 absorbs U128 as it absorbs the narrow
\* integers, instead of widening to F64.
JoinArmF32AbsorbsU128(a, b) ==
    IF a = "TF32" /\ b = "TU128" THEN [tag |-> "ret", ty |-> "TF32"]
    ELSE IF \E row \in JoinTable : row[1] = a /\ row[2] = b
    THEN [tag |-> "ret",
          ty  |-> (CHOOSE row \in JoinTable : row[1] = a /\ row[2] = b)[3]]
    ELSE IF a = "TF64" THEN [tag |-> "ret", ty |-> "TF64"]
    ELSE IF a = b THEN [tag |-> "ret", ty |-> a]
    ELSE [tag |-> "rec", a |-> b, b |-> a]

\* One evaluation of the match in ScalarTy::join on (self, other) = (a, b):
\* either an arm returns a type, or the last arm calls y.join(x).
JoinArm(a, b) ==
    IF \E row \in JoinTable : row[1] = a /\ row[2] = b
    THEN [tag |-> "ret",
          ty  |-> (CHOOSE row \in JoinTable : row[1] = a /\ row[2] = b)[3]]
    ELSE IF a = "TF64" THEN [tag |-> "ret", ty |-> "TF64"]
    ELSE IF a = b THEN [tag |-> "ret", ty |-> a]
    ELSE [tag |-> "rec", a |-> b, b |-> a]

\* The number of nested join frames the thread's stack holds; one more
\* overflows it and the process aborts.
MaxFrames == 4

\* ScalarTy::join as a function: the type it returns, or "StackOverflow"
\* when the recursion of its last arm never reaches a returning arm.
RECURSIVE JoinFrom(_, _, _)
JoinFrom(a, b, frames) ==
    LET arm == JoinArm(a, b) IN
    IF arm.tag = "ret" THEN arm.ty
    ELSE IF frames >= MaxFrames THEN "StackOverflow"
    ELSE JoinFrom(arm.a, arm.b, frames + 1)

join(a, b) == JoinFrom(a, b, 0)

(***************************************************************************)
(* Chunk and vector constants (consts.rs)                                  *)
(***************************************************************************)

VECBYTES == 64
CHUNKBYTES == 65536

\* size_of::<T>() for the Rust type of each ScalarTy.
SizeOf(t) ==
    CASE t \in {"TBool", "TU8", "TI8"} -> 1
      [] t \in {"TU16", "TI16"} -> 2
      [] t \in {"TU32", "TI32", "TF32"} -> 4
      [] t \in {"TU64", "TI64", "TF64"} -> 8
      [] t \in {"TU128", "TI128"} -> 16

\* align_of::<T>(): the natural alignment of each primitive type.
AlignOf(t) == SizeOf(t)

\* [a, b][(a < b) as usize]
cmax(a, b) == IF a < b THEN b ELSE a

\* A variant of stepsz_min that takes the step from the first type alone.
stepsz_of_first(T, U) == VECBYTES \div SizeOf(T)

stepsz_min(T, U) == VECBYTES \div cmax(SizeOf(T), SizeOf(U))
chunksz_min(T, U) == CHUNKBYTES \div cmax(SizeOf(T), SizeOf(U))

(***************************************************************************)
(* Opcodes and the kernel instantiations (ops.rs)                          *)
(***************************************************************************)

BoolBinOpCode == {"Lt", "Le", "Eq", "Ne", "Ge", "Gt"}
BoolUnOpCode == {"IsNaN", "IsInf", "IsFin"}
ValBinOpCode ==
    {"Add", "Sub", "Mul", "Div", "Rem", "Min", "Max", "Pow",
     "BitAnd", "BitOr", "BitXor"}
ValUnOpCode == {"Neg", "BitNot", "Abs", "Ln", "Exp", "Sqrt", "Sin", "Cos"}

UnsignedTys == {"TU8", "TU16", "TU32", "TU64", "TU128"}
SignedTys == {"TI8", "TI16", "TI32", "TI64", "TI128"}
IntTys == UnsignedTys \cup SignedTys
FloatTys == {"TF32", "TF64"}

\* The element types for which ops.rs instantiates a working kernel of the
\* opcode (impl_unop!, impl_unop_pred!, impl_binop!, impl_binop_pred!). For
\* every other type it instantiates the impl_*_unsupported! stub.
\* A variant in which Neg has a working kernel for the unsigned types too.
ImplTysWithUnsignedNeg(op) ==
    CASE op = "Neg" -> IntTys \cup FloatTys
      [] op \in {"Sin", "Cos", "Ln", "Exp", "Sqrt", "Abs"} -> FloatTys
      [] op \in {"IsNaN", "IsInf", "IsFin"} -> FloatTys
      [] op = "BitNot" -> IntTys
      [] op \in {"Add", "Sub", "Mul", "Div", "Rem", "Min", "Max"} ->
            IntTys \cup FloatTys
      [] op = "Pow" -> FloatTys
      [] op \in {"BitAnd", "BitOr", "BitXor"} -> IntTys
      [] op \in BoolBinOpCode -> IntTys \cup FloatTys

ImplTys(op) ==
    CASE op = "Neg" -> {"TI8", "TI16", "TI32", "TI64", "TI128", "TF32", "TF64"}
      [] op \in {"Sin", "Cos", "Ln", "Exp", "Sqrt", "Abs"} -> FloatTys
      [] op \in {"IsNaN", "IsInf", "IsFin"} -> FloatTys
      [] op = "BitNot" -> IntTys
      [] op \in {"Add", "Sub", "Mul", "Div", "Rem", "Min", "Max"} ->
            IntTys \cup FloatTys
      [] op = "Pow" -> FloatTys
      [] op \in {"BitAnd", "BitOr", "BitXor"} -> IntTys
      [] op \in BoolBinOpCode -> IntTys \cup FloatTys

(***************************************************************************)
(* Values, lanes and array contents                                        *)
(***************************************************************************)

\* 2^n for the widths at which the model wraps integers.
Pow2(n) == CASE n = 7 -> 128 [] n = 8 -> 256 [] n = 15 -> 32768 [] n = 16 -> 65536

\* A variant of FromCast that saturates at the bounds of an 8- or 16-bit
\* destination instead of wrapping.
FromCastSaturating(D, x) ==
    LET bits == 8 * SizeOf(D) IN
    IF D \in FloatTys THEN x
    ELSE IF D \in {"TU8", "TU16"}
         THEN (IF x < 0 THEN 0
               ELSE IF x >= Pow2(bits) THEN Pow2(bits) - 1 ELSE x)
    ELSE IF D \in {"TI8", "TI16"}
         THEN (IF x < 0 - Pow2(bits - 1) THEN 0 - Pow2(bits - 1)
               ELSE IF x >= Pow2(bits - 1) THEN Pow2(bits - 1) - 1 ELSE x)
    ELSE IF D \in {"TU32", "TU64", "TU128"} /\ x < 0 THEN 0
    ELSE x

\* Simd::from_cast on one lane, to the numeric type D. The model's values are
\* whole numbers of magnitude below 2^15: a cast to a float or to an integer
\* of 32 bits or more keeps a non-negative value, a cast to an 8- or 16-bit
\* integer wraps, and a negative value cast to a wide unsigned type is kept
\* as the pair <<"2^bits+", bits, x>>.
FromCast(D, x) ==
    LET bits == 8 * SizeOf(D) IN
    IF D \in FloatTys THEN x
    ELSE IF D \in {"TU8", "TU16"} THEN x % Pow2(bits)
    ELSE IF D \in {"TI8", "TI16"}
         THEN ((x + Pow2(bits - 1)) % Pow2(bits)) - Pow2(bits - 1)
    ELSE IF D \in {"TU32", "TU64", "TU128"} /\ x < 0 THEN <<"2^bits+", bits, x>>
    ELSE x

\* A variant of Cast whose conversion to bool tests src > 0.
CastPositiveIsTrue(S, D, x) ==
    IF S = D THEN x
    ELSE IF D = "TBool" THEN x > 0
    ELSE IF S = "TBool" THEN (IF x THEN 1 ELSE 0)
    ELSE FromCast(D, x)

\* One lane of ConvOp<S, D>: impl_noop_convop (S = D), impl_bool_convop
\* (to and from bool) and impl_convop (from_cast).
Cast(S, D, x) ==
    IF S = D THEN x
    ELSE IF D = "TBool" THEN x # 0
    ELSE IF S = "TBool" THEN (IF x THEN 1 ELSE 0)
    ELSE FromCast(D, x)

\* The scalar operation of an opcode on element type T: src.$op() and
\* lhs.$op(rhs) of std, which the lanes of the packed_simd vector operation
\* compute too. The model keeps the application as a term.
ScalarUn(op, T, x) == <<op, T, x>>
ScalarBin(op, T, x, y) == <<op, T, x, y>>

\* The function a kernel body applies to each lane.
Lane(fn, x, y) ==
    CASE fn.kind = "conv" -> Cast(fn.from, fn.to, x)
      [] fn.kind = "un" -> ScalarUn(fn.op, fn.ty, x)
      [] fn.kind = "bin" -> ScalarBin(fn.op, fn.ty, x, y)

\* The contents of a buffer nobody has written during the call.
Old == [k |-> "old"]
\* Simd::splat(c): every lane holds c.
Splat(v) == [k |-> "splat", v |-> v]
NoArg == [k |-> "splat", v |-> "none"]

\* Element i of an array whose contents are: the caller's data ("pat", a
\* pattern repeated as the tests build their inputs with cycle().take(n)), a
\* broadcast constant ("splat"), the bytes of before the call ("old"), or
\* what a skeleton run wrote ("skel"). A skeleton run over n elements splits
\* source and destination with par_chunks(chunk), zips the chunks, and its
\* body splits each chunk pair with chunks_exact(step), zips the steps and
\* writes every lane of a step.
RECURSIVE ElemAt(_, _)
ElemAt(c, i) ==
    CASE c.k = "pat" -> c.pat[(i % Len(c.pat)) + 1]
      [] c.k = "splat" -> c.v
      [] c.k = "old" -> "old"
      [] c.k = "skel" ->
            LET start == (i \div c.chunk) * c.chunk
                chunklen == IF c.n - start < c.chunk THEN c.n - start ELSE c.chunk
                s == (i - start) \div c.step
                lane == (i - start) % c.step
                from == start + s * c.step + lane
            IN IF i < c.n /\ (s + 1) * c.step <= chunklen
               THEN Lane(c.fn, ElemAt(c.a, from), ElemAt(c.b, from))
               ELSE "old"

\* What a run of a skeleton (UnOpSkel::skel, BinOpSkel::skel or the chunk
\* loop of a conversion kernel) leaves in its destination.
SkelWrite(fn, a, b, n, T, U) ==
    [k |-> "skel", fn |-> fn, a |-> a, b |-> b, n |-> n,
     chunk |-> chunksz_min(T, U), step |-> stepsz_min(T, U)]

(***************************************************************************)
(* Buffer validation (eval.rs)                                             *)
(***************************************************************************)

\* A variant of check_align_and_size that does not look at the address.
check_size_only(T, x) ==
    IF (x.bytes % SizeOf(T)) # 0 THEN [st |-> "BadBuffer", n |-> 0]
    ELSE [st |-> "Ok", n |-> x.bytes \div SizeOf(T)]

\* check_align_and_size::<T>(x): the count of T elements in the byte buffer
\* x, or BadBuffer when its address is not a multiple of align_of::<T>() or
\* its length not a multiple of size_of::<T>(). transmute_buf_mut::<T> is
\* this check followed by the reinterpretation of the bytes.
check_align_and_size(T, x) ==
    IF (x.addr % AlignOf(T)) # 0 THEN [st |-> "BadBuffer", n |-> 0]
    ELSE IF (x.bytes % SizeOf(T)) # 0 THEN [st |-> "BadBuffer", n |-> 0]
    ELSE [st |-> "Ok", n |-> x.bytes \div SizeOf(T)]

transmute_buf_mut(T, x) == check_align_and_size(T, x)

\* check_equal_lengths(x, y)
check_equal_lengths(xlen, ylen) == IF xlen # ylen THEN "BadBuffer" ELSE "Ok"

\* A variant of check_ok_length that tests the vector multiple only.
check_vector_length_only(T, n) ==
    LET sz == SizeOf(T)
        v == VECBYTES \div sz
    IN IF (n % v) # 0 THEN "BadBuffer" ELSE "Ok"

\* A variant of check_ok_length that rejects the empty slice.
check_ok_length_nonempty(T, n) ==
    LET sz == SizeOf(T)
        ch == CHUNKBYTES \div sz
        v == VECBYTES \div sz
    IN IF n = 0 THEN "BadBuffer"
       ELSE IF (n % ch) # 0 THEN "BadBuffer"
       ELSE IF (n % v) # 0 THEN "BadBuffer"
       ELSE "Ok"

\* check_ok_length::<T>(x) on a slice of n elements of type T. ch and v are
\* powers of two, so (n & (ch - 1)) is n % ch.
check_ok_length(T, n) ==
    LET sz == SizeOf(T)
        ch == CHUNKBYTES \div sz
        v == VECBYTES \div sz
    IN IF (n % ch) # 0 THEN "BadBuffer"
       ELSE IF (n % v) # 0 THEN "BadBuffer"
       ELSE "Ok"

\* A variant of bound_output_length that does not compare the lengths.
bound_output_length_unchecked(xlen, boundTy, boundlen) ==
    IF check_ok_length(boundTy, boundlen) # "Ok" THEN "BadBuffer"
    ELSE "Ok"

\* A variant of bound_output_length that wants x longer than bound.
bound_output_length_strict(xlen, boundTy, boundlen) ==
    IF check_ok_length(boundTy, boundlen) # "Ok" THEN "BadBuffer"
    ELSE IF xlen <= boundlen THEN "BadBuffer"
    ELSE "Ok"

\* bound_output_length(x, bound): x of xlen elements cut down to the length
\* of bound, a slice of boundlen elements of type boundTy.
bound_output_length(xlen, boundTy, boundlen) ==
    IF check_ok_length(boundTy, boundlen) # "Ok" THEN "BadBuffer"
    ELSE IF xlen < boundlen THEN "BadBuffer"
    ELSE "Ok"

(***************************************************************************)
(* Skeletons and kernels (macros.rs)                                       *)
(***************************************************************************)

\* The assertions of UnOpSkel::<SRC, DST>::skel and of the chunk loops of
\* the conversion kernels: a failed assert_eq! panics.
UnOpSkelAsserts(SRC, DST, srclen, dstlen) ==
    IF srclen # dstlen THEN "Panic"
    ELSE IF (srclen % chunksz_min(SRC, DST)) # 0 THEN "Panic"
    ELSE "Ok"

\* The assertions of BinOpSkel::<SRC, DST>::skel (len is rhs.len()).
BinOpSkelAsserts(SRC, DST, lhslen, rhslen, dstlen) ==
    IF rhslen # lhslen THEN "Panic"
    ELSE IF rhslen # dstlen THEN "Panic"
    ELSE IF (rhslen % chunksz_min(SRC, DST)) # 0 THEN "Panic"
    ELSE "Ok"

\* One step of a routed evaluation: what ran, how it ended, and the buffer
\* contents it left when it ended Ok.
St(what, st) == [what |-> what, st |-> st, buf |-> "none", c |-> Old]
StW(what, st, buf, c) == [what |-> what, st |-> st, buf |-> buf, c |-> c]

\* A variant of ConvApplySlice without the identity kernel: every conversion
\* runs the chunk loop and fills dst.
ConvApplySliceAlwaysCopies(src, T, buf) ==
    LET c == SkelWrite([kind |-> "conv", from |-> src.ty, to |-> T],
                       src.c, NoArg, src.len, src.ty, T)
    IN [step |-> StW(<<"conv", buf>>,
                     UnOpSkelAsserts(src.ty, T, src.len, src.len), buf, c),
        view |-> [shape |-> "slice", ty |-> T, len |-> src.len,
                  base |-> buf, c |-> c]]

\* <ConvOp<S, T>>::apply_slice(src, dst) with dst = tmp[0..src.len()], tmp
\* being the buffer named buf: impl_noop_convop returns its input and leaves
\* dst alone; the other conversion kernels fill dst and return it.
ConvApplySlice(src, T, buf) ==
    IF src.ty = T
    THEN [step |-> St(<<"conv_noop", buf>>, "Ok"), view |-> src]
    ELSE LET c == SkelWrite([kind |-> "conv", from |-> src.ty, to |-> T],
                            src.c, NoArg, src.len, src.ty, T)
         IN [step |-> StW(<<"conv", buf>>,
                          UnOpSkelAsserts(src.ty, T, src.len, src.len), buf, c),
             view |-> [shape |-> "slice", ty |-> T, len |-> src.len,
                       base |-> buf, c |-> c]]

\* conv_slice_dynamic(s, tmp): bound tmp (of tmplen elements of T) to the
\* length of s, then apply the conversion kernel of s's element type.
conv_slice_dynamic(s, T, tmplen, buf) ==
    LET k == ConvApplySlice(s, T, buf) IN
    [steps |-> <<St(<<"bound", buf>>, bound_output_length(tmplen, s.ty, s.len)),
                 k.step>>,
     view |-> k.view]

\* conv_const_dynamic(c): <ConvOp<_, T>>::apply_const on the constant.
conv_const_dynamic(c, T) == Cast(c.ty, T, c.val)

\* apply_slice_slice of the kernel of op on element type T with output type
\* U, on the slices lhs and rhs and a destination of dstlen elements.
apply_slice_slice(op, T, U, lhs, rhs, dstlen) ==
    IF T \notin ImplTys(op) THEN St(<<"op", op>>, "UnsupportedOp")
    ELSE StW(<<"op", op>>,
             BinOpSkelAsserts(T, U, lhs.len, rhs.len, dstlen), "out",
             SkelWrite([kind |-> "bin", op |-> op, ty |-> T],
                       lhs.c, rhs.c, rhs.len, T, U))

\* A variant of apply_slice_const whose broadcast vector is not used by the
\* body: the lanes of lhs are combined with themselves.
apply_slice_const_unbroadcast(op, T, U, lhs, rhs, dstlen) ==
    IF T \notin ImplTys(op) THEN St(<<"op", op>>, "UnsupportedOp")
    ELSE StW(<<"op", op>>, UnOpSkelAsserts(T, U, lhs.len, dstlen), "out",
             SkelWrite([kind |-> "bin", op |-> op, ty |-> T],
                       lhs.c, lhs.c, lhs.len, T, U))

\* apply_slice_const: the unary skeleton over lhs with rhs broadcast.
apply_slice_const(op, T, U, lhs, rhs, dstlen) ==
    IF T \notin ImplTys(op) THEN St(<<"op", op>>, "UnsupportedOp")
    ELSE StW(<<"op", op>>, UnOpSkelAsserts(T, U, lhs.len, dstlen), "out",
             SkelWrite([kind |-> "bin", op |-> op, ty |-> T],
                       lhs.c, Splat(rhs), lhs.len, T, U))

\* A variant of apply_const_slice that passes the lanes to the scalar
\* operation in the order (rhs, lhs).
apply_const_slice_swapped(op, T, U, lhs, rhs, dstlen) ==
    IF T \notin ImplTys(op) THEN St(<<"op", op>>, "UnsupportedOp")
    ELSE StW(<<"op", op>>, UnOpSkelAsserts(T, U, rhs.len, dstlen), "out",
             SkelWrite([kind |-> "bin", op |-> op, ty |-> T],
                       rhs.c, Splat(lhs), rhs.len, T, U))

\* apply_const_slice: the unary skeleton over rhs with lhs broadcast.
apply_const_slice(op, T, U, lhs, rhs, dstlen) ==
    IF T \notin ImplTys(op) THEN St(<<"op", op>>, "UnsupportedOp")
    ELSE StW(<<"op", op>>, UnOpSkelAsserts(T, U, rhs.len, dstlen), "out",
             SkelWrite([kind |-> "bin", op |-> op, ty |-> T],
                       Splat(lhs), rhs.c, rhs.len, T, U))

\* A variant of apply_const_const with the body of the unsupported kernels.
apply_const_const_unsupported(op, T, lhs, rhs) ==
    St(<<"op", op>>, "UnsupportedOp")

\* apply_const_const: the scalar operation, no buffer.
apply_const_const(op, T, lhs, rhs) ==
    IF T \notin ImplTys(op) THEN St(<<"op", op>>, "UnsupportedOp")
    ELSE St(<<"op", op>>, "Ok")

\* apply_slice of a unary kernel.
apply_slice(op, T, U, src, dstlen) ==
    IF T \notin ImplTys(op) THEN St(<<"op", op>>, "UnsupportedOp")
    ELSE StW(<<"op", op>>, UnOpSkelAsserts(T, U, src.len, dstlen), "out",
             SkelWrite([kind |-> "un", op |-> op, ty |-> T],
                       src.c, NoArg, src.len, T, U))

\* apply_const of a unary kernel.
apply_const(op, T, src) ==
    IF T \notin ImplTys(op) THEN St(<<"op", op>>, "UnsupportedOp")
    ELSE St(<<"op", op>>, "Ok")

(***************************************************************************)
(* The router (eval.rs)                                                    *)
(***************************************************************************)

NoVal == [shape |-> "none"]
OperandSlice(ty, len, c) ==
    [shape |-> "slice", ty |-> ty, len |-> len, base |-> "out", c |-> c]
OperandConst(ty, v) == [shape |-> "const", ty |-> ty, val |-> v]

\* A variant of Outcome for an arm that dispatches on the opcode before it
\* validates: an unsupported kernel is reported whatever the checks say.
OutcomeDispatchFirst(steps, val) ==
    LET bad == {i \in 1..Len(steps) : steps[i].st # "Ok"}
        unsup == {i \in 1..Len(steps) : steps[i].st = "UnsupportedOp"}
        upto == IF bad = {} THEN Len(steps)
                ELSE IF unsup # {} THEN CHOOSE i \in unsup : TRUE
                ELSE CHOOSE i \in bad : \A j \in bad : i <= j
        Written(b) ==
            IF unsup = {}
               /\ \E i \in 1..upto : steps[i].st = "Ok" /\ steps[i].buf = b
            THEN steps[CHOOSE i \in 1..upto :
                           steps[i].st = "Ok" /\ steps[i].buf = b].c
            ELSE Old
    IN [status |-> IF bad = {} THEN "Ok" ELSE steps[upto].st,
        val |-> IF bad = {} THEN val ELSE NoVal,
        tmp1 |-> Written("tmp1"),
        tmp2 |-> Written("tmp2"),
        out |-> Written("out"),
        ev |-> IF unsup # {} THEN <<steps[upto].what>>
               ELSE [i \in 1..upto |-> steps[i].what]]

\* The outcome of the steps of one arm, run in order: every `?` returns the
\* first error, a panic unwinds, and a step that did not run writes nothing.
\* val is the arm's Ok value.
Outcome(steps, val) ==
    LET bad == {i \in 1..Len(steps) : steps[i].st # "Ok"}
        upto == IF bad = {} THEN Len(steps)
                ELSE CHOOSE i \in bad : \A j \in bad : i <= j
        Written(b) ==
            IF \E i \in 1..upto : steps[i].st = "Ok" /\ steps[i].buf = b
            THEN steps[CHOOSE i \in 1..upto :
                           steps[i].st = "Ok" /\ steps[i].buf = b].c
            ELSE Old
    IN [status |-> IF bad = {} THEN "Ok" ELSE steps[upto].st,
        val |-> IF bad = {} THEN val ELSE NoVal,
        tmp1 |-> Written("tmp1"),
        tmp2 |-> Written("tmp2"),
        out |-> Written("out"),
        ev |-> [i \in 1..upto |-> steps[i].what]]

\* The process aborts inside join, before any buffer is looked at.
Aborted ==
    [status |-> "Abort", val |-> NoVal, tmp1 |-> Old, tmp2 |-> Old,
     out |-> Old, ev |-> <<>>]

\* The four arms of val_binop_static::<T> (U = T, eqlen = TRUE) and of
\* bool_binop_static::<T> (U = bool, eqlen = FALSE): the two bodies differ
\* in the type of tdst, in the kernels, and in that only val_binop_static's
\* slice-slice arm calls check_equal_lengths.
binop_static(T, U, eqlen, op, lhs, rhs, ctx) ==
    LET tlhs == transmute_buf_mut(T, ctx.tmp1)
        trhs == transmute_buf_mut(T, ctx.tmp2)
        tdst == transmute_buf_mut(U, ctx.out)
    IN
    IF lhs.shape = "slice" /\ rhs.shape = "slice" THEN
        LET clhs == conv_slice_dynamic(lhs, T, tlhs.n, "tmp1")
            crhs == conv_slice_dynamic(rhs, T, trhs.n, "tmp2")
            dstlen == crhs.view.len
            k == apply_slice_slice(op, T, U, clhs.view, crhs.view, dstlen)
        IN Outcome(
             <<St(<<"tm", "tmp1">>, tlhs.st), St(<<"tm", "tmp2">>, trhs.st),
               St(<<"tm", "out">>, tdst.st)>>
             \o clhs.steps \o crhs.steps
             \o <<St(<<"bound", "out">>,
                     bound_output_length(tdst.n, T, crhs.view.len))>>
             \o (IF eqlen
                 THEN <<St(<<"eqlen">>,
                           check_equal_lengths(clhs.view.len, crhs.view.len))>>
                 ELSE <<>>)
             \o <<St(<<"oklen", "clhs">>, check_ok_length(T, clhs.view.len)),
                  St(<<"oklen", "crhs">>, check_ok_length(T, crhs.view.len)),
                  St(<<"oklen", "dst">>, check_ok_length(U, dstlen)),
                  k>>,
             OperandSlice(U, dstlen, k.c))
    ELSE IF lhs.shape = "slice" /\ rhs.shape = "const" THEN
        LET clhs == conv_slice_dynamic(lhs, T, tlhs.n, "tmp1")
            crhs == conv_const_dynamic(rhs, T)
            dstlen == clhs.view.len
            k == apply_slice_const(op, T, U, clhs.view, crhs, dstlen)
        IN Outcome(
             <<St(<<"tm", "tmp1">>, tlhs.st), St(<<"tm", "out">>, tdst.st)>>
             \o clhs.steps
             \o <<St(<<"conv_const", "rhs">>, "Ok"),
                  St(<<"bound", "out">>,
                     bound_output_length(tdst.n, T, clhs.view.len)),
                  St(<<"oklen", "clhs">>, check_ok_length(T, clhs.view.len)),
                  St(<<"oklen", "dst">>, check_ok_length(U, dstlen)),
                  k>>,
             OperandSlice(U, dstlen, k.c))
    ELSE IF lhs.shape = "const" /\ rhs.shape = "slice" THEN
        LET clhs == conv_const_dynamic(lhs, T)
            crhs == conv_slice_dynamic(rhs, T, trhs.n, "tmp2")
            dstlen == crhs.view.len
            k == apply_const_slice(op, T, U, clhs, crhs.view, dstlen)
        IN Outcome(
             <<St(<<"tm", "tmp2">>, trhs.st), St(<<"tm", "out">>, tdst.st),
               St(<<"conv_const", "lhs">>, "Ok")>>
             \o crhs.steps
             \o <<St(<<"bound", "out">>,
                     bound_output_length(tdst.n, T, crhs.view.len)),
                  St(<<"oklen", "crhs">>, check_ok_length(T, crhs.view.len)),
                  St(<<"oklen", "dst">>, check_ok_length(U, dstlen)),
                  k>>,
             OperandSlice(U, dstlen, k.c))
    ELSE
        LET clhs == conv_const_dynamic(lhs, T)
            crhs == conv_const_dynamic(rhs, T)
        IN Outcome(
             <<St(<<"conv_const", "lhs">>, "Ok"),
               St(<<"conv_const", "rhs">>, "Ok"),
               apply_const_const(op, T, clhs, crhs)>>,
             OperandConst(U, ScalarBin(op, T, clhs, crhs)))

val_binop_static(T, op, lhs, rhs, ctx) ==
    binop_static(T, T, TRUE, op, lhs, rhs, ctx)

bool_binop_static(T, op, lhs, rhs, ctx) ==
    binop_static(T, "TBool", FALSE, op, lhs, rhs, ctx)

\* A variant of unop_static whose slice arm reinterprets tmp2 as well.
unop_static_with_tmp2(T, U, op, operand, ctx) ==
    LET ts == transmute_buf_mut(T, ctx.tmp1)
        tunused == transmute_buf_mut(T, ctx.tmp2)
        tdst == transmute_buf_mut(U, ctx.out)
    IN
    IF operand.shape = "slice" THEN
        LET cs == conv_slice_dynamic(operand, T, ts.n, "tmp1")
            dstlen == cs.view.len
            k == apply_slice(op, T, U, cs.view, dstlen)
        IN Outcome(
             <<St(<<"tm", "tmp1">>, ts.st), St(<<"tm", "tmp2">>, tunused.st),
               St(<<"tm", "out">>, tdst.st)>>
             \o cs.steps
             \o <<St(<<"bound", "out">>,
                     bound_output_length(tdst.n, T, cs.view.len)),
                  St(<<"oklen", "cs">>, check_ok_length(T, cs.view.len)),
                  St(<<"oklen", "dst">>, check_ok_length(U, dstlen)),
                  k>>,
             OperandSlice(U, dstlen, k.c))
    ELSE
        LET cc == conv_const_dynamic(operand, T)
        IN Outcome(
             <<St(<<"conv_const", "operand">>, "Ok"), apply_const(op, T, cc)>>,
             OperandConst(U, ScalarUn(op, T, cc)))

\* The two arms of val_unop_static::<T> (U = T) and bool_unop_static::<T>
\* (U = bool).
unop_static(T, U, op, operand, ctx) ==
    LET ts == transmute_buf_mut(T, ctx.tmp1)
        tdst == transmute_buf_mut(U, ctx.out)
    IN
    IF operand.shape = "slice" THEN
        LET cs == conv_slice_dynamic(operand, T, ts.n, "tmp1")
            dstlen == cs.view.len
            k == apply_slice(op, T, U, cs.view, dstlen)
        IN Outcome(
             <<St(<<"tm", "tmp1">>, ts.st), St(<<"tm", "out">>, tdst.st)>>
             \o cs.steps
             \o <<St(<<"bound", "out">>,
                     bound_output_length(tdst.n, T, cs.view.len)),
                  St(<<"oklen", "cs">>, check_ok_length(T, cs.view.len)),
                  St(<<"oklen", "dst">>, check_ok_length(U, dstlen)),
                  k>>,
             OperandSlice(U, dstlen, k.c))
    ELSE
        LET cc == conv_const_dynamic(operand, T)
        IN Outcome(
             <<St(<<"conv_const", "operand">>, "Ok"), apply_const(op, T, cc)>>,
             OperandConst(U, ScalarUn(op, T, cc)))

val_unop_static(T, op, operand, ctx) == unop_static(T, T, op, operand, ctx)
bool_unop_static(T, op, operand, ctx) ==
    unop_static(T, "TBool", op, operand, ctx)

\* A variant of bool_binop that compares in the type of the right operand.
bool_binop_in_rhs_ty(op, lhs, rhs, ctx) ==
    bool_binop_static(rhs.ty, op, lhs, rhs, ctx)

\* A variant of val_binop that computes in the type of the left operand.
val_binop_in_lhs_ty(op, lhs, rhs, ctx) ==
    val_binop_static(lhs.ty, op, lhs, rhs, ctx)

\* EvalCtx::val_binop and EvalCtx::bool_binop: join the operand types and
\* switch on the result.
val_binop(op, lhs, rhs, ctx) ==
    LET common_ty == join(lhs.ty, rhs.ty) IN
    IF common_ty = "StackOverflow" THEN Aborted
    ELSE val_binop_static(common_ty, op, lhs, rhs, ctx)

bool_binop(op, lhs, rhs, ctx) ==
    LET common_ty == join(lhs.ty, rhs.ty) IN
    IF common_ty = "StackOverflow" THEN Aborted
    ELSE bool_binop_static(common_ty, op, lhs, rhs, ctx)

\* EvalCtx::val_unop and EvalCtx::bool_unop: switch on the operand's type.
val_unop(op, operand, ctx) ==
    val_unop_static(operand.ty, op, operand, ctx)

bool_unop(op, operand, ctx) ==
    bool_unop_static(operand.ty, op, operand, ctx)

\* A variant of conv whose slice path runs the conversion kernel over out
\* before it bounds out to the length of the slice.
conv_before_bound(s, ty, ctx) ==
    IF s.shape = "slice" THEN
        LET tdst == transmute_buf_mut(ty, ctx.out)
            cs == conv_slice_dynamic(s, ty, tdst.n, "out")
        IN Outcome(<<St(<<"tm", "out">>, tdst.st), cs.steps[2], cs.steps[1]>>,
                   cs.view)
    ELSE
        Outcome(<<St(<<"conv_const", "operand">>, "Ok")>>,
                OperandConst(ty, conv_const_dynamic(s, ty)))

\* EvalCtx::conv(s, ty): conv_slice reinterprets out as [ty] and converts the
\* slice into it with conv_slice_dynamic; conv_const converts the constant.
conv(s, ty, ctx) ==
    IF s.shape = "slice" THEN
        LET tdst == transmute_buf_mut(ty, ctx.out)
            cs == conv_slice_dynamic(s, ty, tdst.n, "out")
        IN Outcome(<<St(<<"tm", "out">>, tdst.st)>> \o cs.steps, cs.view)
    ELSE
        Outcome(<<St(<<"conv_const", "operand">>, "Ok")>>,
                OperandConst(ty, conv_const_dynamic(s, ty)))

(***************************************************************************)
(* State                                                                   *)
(***************************************************************************)
VARIABLES
    jpc,      \* position of the join call: "call", "ret", "done", "overflow"
    ja0, jb0, \* the arguments of the outermost join call
    ja, jb,   \* the arguments of the innermost join frame
    jframes,  \* the number of join frames below the innermost one
    jres,     \* the value returned by the innermost returned frame
    pc,       \* position of the evaluator call: "ready", "done"
    call,     \* the entry point called, its opcode, operands and EvalCtx
    res,      \* what the call returned and what it left in the buffers
    sn,       \* per evaluation, the number of chunks of its slices
    spos,     \* per evaluation, the position of the calling thread
    cst,      \* per evaluation, skeleton run and chunk: the body's progress
    wk,       \* per worker of the pool: the chunk body it runs, or Idle
    mem,      \* the contents of the input and of each evaluation's buffers
    acc       \* per buffer and index: the chunk bodies that accessed it

jvars == <<jpc, ja0, jb0, ja, jb, jframes, jres>>
evars == <<pc, call, res>>
svars == <<sn, spos, cst, wk, mem, acc>>
vars == <<jpc, ja0, jb0, ja, jb, jframes, jres, pc, call, res,
          sn, spos, cst, wk, mem, acc>>

\* No evaluator call (in the behaviours of join alone).
NoCall == [entry |-> "none"]
NoRes == [status |-> "none"]

\* No skeleton run (in the behaviours of join and of the evaluator calls).
SkelIdle ==
    /\ sn = <<>> /\ spos = <<>> /\ cst = <<>>
    /\ wk = <<>> /\ mem = <<>> /\ acc = {}

(***************************************************************************)
(* ScalarTy::join, one frame at a time                                     *)
(***************************************************************************)

InitJoin ==
    /\ ja0 \in ScalarTy
    /\ jb0 \in ScalarTy
    /\ ja = ja0
    /\ jb = jb0
    /\ jpc = "call"
    /\ jframes = 0
    /\ jres = "none"
    /\ pc = "idle"
    /\ call = NoCall
    /\ res = NoRes
    /\ SkelIdle

\* An arm of the match other than the last one returns.
JoinMatch ==
    /\ jpc = "call"
    /\ JoinArm(ja, jb).tag = "ret"
    /\ jres' = JoinArm(ja, jb).ty
    /\ jpc' = "ret"
    /\ UNCHANGED <<ja0, jb0, ja, jb, jframes>>
    /\ UNCHANGED <<evars, svars>>

\* The last arm, (x, y) => y.join(x): a new frame with the arguments swapped.
JoinRecurse ==
    /\ jpc = "call"
    /\ JoinArm(ja, jb).tag = "rec"
    /\ jframes < MaxFrames
    /\ ja' = JoinArm(ja, jb).a
    /\ jb' = JoinArm(ja, jb).b
    /\ jframes' = jframes + 1
    /\ UNCHANGED <<ja0, jb0, jpc, jres>>
    /\ UNCHANGED <<evars, svars>>

\* The last arm when the stack is full: the process aborts.
JoinOverflow ==
    /\ jpc = "call"
    /\ JoinArm(ja, jb).tag = "rec"
    /\ jframes >= MaxFrames
    /\ jpc' = "overflow"
    /\ UNCHANGED <<ja0, jb0, ja, jb, jframes, jres>>
    /\ UNCHANGED <<evars, svars>>

\* A frame entered by the last arm returns its callee's value unchanged.
JoinUnwind ==
    /\ jpc = "ret"
    /\ jframes > 0
    /\ jframes' = jframes - 1
    /\ UNCHANGED <<ja0, jb0, ja, jb, jpc, jres>>
    /\ UNCHANGED <<evars, svars>>

\* The outermost frame returns to the caller of join.
JoinDone ==
    /\ jpc = "ret"
    /\ jframes = 0
    /\ jpc' = "done"
    /\ UNCHANGED <<ja0, jb0, ja, jb, jframes, jres>>
    /\ UNCHANGED <<evars, svars>>

NextJoin ==
    \/ JoinMatch
    \/ JoinRecurse
    \/ JoinOverflow
    \/ JoinUnwind
    \/ JoinDone

SpecJoin == InitJoin /\ [][NextJoin]_vars

(***************************************************************************)
(* Evaluator calls                                                         *)
(***************************************************************************)

\* The data of the operands: a short pattern per element type and side,
\* repeated to the length of the slice, and one constant per type and side.
\* Integer values on the right are non-zero (no division by zero).
PatOf(ty, side) ==
    IF ty = "TBool"
    THEN (IF side = "lhs" THEN <<TRUE, FALSE>> ELSE <<FALSE, TRUE, TRUE>>)
    ELSE IF ty \in UnsignedTys
    THEN (IF side = "lhs" THEN <<1, 200>> ELSE <<200, 3, 7>>)
    ELSE (IF side = "lhs" THEN <<-3, 5>> ELSE <<100, -56, 2>>)

ConstOf(ty, side) ==
    IF ty = "TBool" THEN side = "lhs"
    ELSE IF ty \in UnsignedTys THEN (IF side = "lhs" THEN 9 ELSE 4)
    ELSE (IF side = "lhs" THEN -2 ELSE 6)

Slice(ty, n, side) ==
    [shape |-> "slice", ty |-> ty, len |-> n, base |-> side,
     c |-> [k |-> "pat", pat |-> PatOf(ty, side)]]
Const(ty, side) == [shape |-> "const", ty |-> ty, val |-> ConstOf(ty, side)]

\* The lengths of the slice operands: empty, not a multiple of any chunk
\* size, one chunk of a 16-byte type, one and two chunks of a 1-byte type.
SliceLens == {0, 100, CHUNKBYTES \div 16, CHUNKBYTES, 2 * CHUNKBYTES}

Operands(ty, side) ==
    {Const(ty, side)} \cup {Slice(ty, n, side) : n \in SliceLens}

\* Further operands of the calls of conv: the constant zero of the type, and
\* a slice of CHUNKBYTES elements whose pattern holds zero, a negative value
\* (signed types) and a value above the range of i8.
ZeroOf(ty) == IF ty = "TBool" THEN FALSE ELSE 0
ConvPatOf(ty) ==
    IF ty = "TBool" THEN <<FALSE, TRUE>>
    ELSE IF ty \in UnsignedTys THEN <<0, 1, 200>>
    ELSE <<0, -3, 100>>
ConvOperands(ty) ==
    {[shape |-> "const", ty |-> ty, val |-> ZeroOf(ty)],
     [shape |-> "slice", ty |-> ty, len |-> CHUNKBYTES, base |-> "lhs",
      c |-> [k |-> "pat", pat |-> ConvPatOf(ty)]]}

\* The pairs of operand types of the binary calls: every type with itself,
\* and mixed pairs (some of which join does not return for).
MixedTyPairs ==
    {<<"TU8", "TI8">>, <<"TI8", "TU8">>, <<"TBool", "TF64">>,
     <<"TF64", "TBool">>, <<"TBool", "TU8">>, <<"TU16", "TI8">>,
     <<"TU128", "TI128">>, <<"TF32", "TU64">>, <<"TU64", "TF32">>,
     <<"TU8", "TU128">>, <<"TI16", "TF32">>, <<"TU32", "TI64">>}
EvalTyPairs == {<<t, t>> : t \in ScalarTy} \cup MixedTyPairs

\* Scratch buffers: the tests' well-formed buffer (here 16 x CHUNKBYTES
\* bytes at a 16-aligned address), and buffers with one defect each: an
\* address off by one byte, room for one chunk only, and a length that is a
\* multiple of 8 but not of 16 or of CHUNKBYTES.
GoodBuf == [addr |-> 4096, bytes |-> 16 * CHUNKBYTES]
DefectBufs ==
    {[addr |-> 4097, bytes |-> 16 * CHUNKBYTES],
     [addr |-> 4096, bytes |-> CHUNKBYTES],
     [addr |-> 4096, bytes |-> 16 * CHUNKBYTES + 8]}
GoodCtx == [tmp1 |-> GoodBuf, tmp2 |-> GoodBuf, out |-> GoodBuf]
Ctxs ==
    {GoodCtx}
    \cup {[GoodCtx EXCEPT ![b] = d] : b \in {"tmp1", "tmp2", "out"},
                                      d \in DefectBufs}

\* The entry points and their opcodes; for conv, the field op of the call
\* holds the scalar type converted to.
Entries ==
    {<<"val_binop", ValBinOpCode>>, <<"bool_binop", BoolBinOpCode>>,
     <<"val_unop", ValUnOpCode>>, <<"bool_unop", BoolUnOpCode>>,
     <<"conv", ScalarTy>>}
BinaryEntries == {"val_binop", "bool_binop"}

\* A call of an entry point, on a fresh EvalCtx.
Init ==
    /\ pc = "ready"
    /\ \E e \in Entries, c \in Ctxs :
         \E o \in e[2] :
            \/ /\ e[1] \in BinaryEntries
               /\ \E p \in EvalTyPairs :
                    \E l \in Operands(p[1], "lhs"), r \in Operands(p[2], "rhs") :
                       call = [entry |-> e[1], op |-> o, lhs |-> l, rhs |-> r,
                               ctx |-> c]
            \/ /\ e[1] \notin BinaryEntries
               /\ \E t \in ScalarTy :
                    \E l \in Operands(t, "lhs")
                             \cup (IF e[1] = "conv" THEN ConvOperands(t)
                                   ELSE {}) :
                       call = [entry |-> e[1], op |-> o, lhs |-> l,
                               rhs |-> NoVal, ctx |-> c]
    /\ res = NoRes
    /\ jpc = "idle"
    /\ ja0 = "TBool" /\ jb0 = "TBool" /\ ja = "TBool" /\ jb = "TBool"
    /\ jframes = 0
    /\ jres = "none"
    /\ SkelIdle

ValBinop ==
    /\ pc = "ready"
    /\ call.entry = "val_binop"
    /\ res' = val_binop(call.op, call.lhs, call.rhs, call.ctx)
    /\ pc' = "done"
    /\ UNCHANGED <<call, jvars, svars>>

BoolBinop ==
    /\ pc = "ready"
    /\ call.entry = "bool_binop"
    /\ res' = bool_binop(call.op, call.lhs, call.rhs, call.ctx)
    /\ pc' = "done"
    /\ UNCHANGED <<call, jvars, svars>>

ValUnop ==
    /\ pc = "ready"
    /\ call.entry = "val_unop"
    /\ res' = val_unop(call.op, call.lhs, call.ctx)
    /\ pc' = "done"
    /\ UNCHANGED <<call, jvars, svars>>

BoolUnop ==
    /\ pc = "ready"
    /\ call.entry = "bool_unop"
    /\ res' = bool_unop(call.op, call.lhs, call.ctx)
    /\ pc' = "done"
    /\ UNCHANGED <<call, jvars, svars>>

Conv ==
    /\ pc = "ready"
    /\ call.entry = "conv"
    /\ res' = conv(call.lhs, call.op, call.ctx)
    /\ pc' = "done"
    /\ UNCHANGED <<call, jvars, svars>>

Next ==
    \/ ValBinop
    \/ BoolBinop
    \/ ValUnop
    \/ BoolUnop
    \/ Conv

Spec == Init /\ [][Next]_vars

(***************************************************************************)
(* Skeleton runs on the worker pool (macros.rs)                            *)
(*                                                                         *)
(* Two evaluations, each on a thread of its own and with buffers of its    *)
(* own, convert the shared input slice into their tmp buffer (the chunk    *)
(* loop of a conversion kernel) and then run a binary operation on the     *)
(* converted slice and the input into their out buffer (BinOpSkel::skel).  *)
(* par_chunks(CHUNKSZ).zip(..).for_each(f) hands each chunk to a worker of *)
(* the pool, in any order, and returns when f has returned on every one.   *)
(* Chunks and steps are scaled down: a chunk is StepsPerChunk steps of     *)
(* LanesPerStep elements.                                                  *)
(***************************************************************************)
MaxChunks == 2
StepsPerChunk == 1
LanesPerStep == 2
NWorkers == 2

Evals == {1, 2}
Runs == {"conv", "op"}
Workers == 1..NWorkers
SkelStep == LanesPerStep
SkelChunk == StepsPerChunk * LanesPerStep
MaxN == MaxChunks * SkelChunk

\* The buffers: the input slice both evaluations read, and the tmp and out
\* buffer of each EvalCtx.
In == <<"in", 0>>
Tmp(e) == <<"tmp", e>>
Out(e) == <<"out", e>>
Bufs == {In} \cup {Tmp(e) : e \in Evals} \cup {Out(e) : e \in Evals}
OldVal == <<"old">>
Idle == [e |-> 0, r |-> "none", j |-> 0]

\* The sources and the destination of a skeleton run of evaluation e, and
\* what its body computes in one lane.
\* A variant of SrcsOf in which every operation reads the tmp buffer of
\* evaluation 1.
SrcsOfSharedTmp(e, r) == IF r = "conv" THEN <<In>> ELSE <<Tmp(1), In>>
SrcsOf(e, r) == IF r = "conv" THEN <<In>> ELSE <<Tmp(e), In>>
\* A variant of DstOf in which the evaluations share one out buffer.
DstOfSharedOut(e, r) == IF r = "conv" THEN Tmp(e) ELSE Out(1)
DstOf(e, r) == IF r = "conv" THEN Tmp(e) ELSE Out(e)
LaneOf(e, r, xs) ==
    IF r = "conv" THEN <<"conv", e, xs[1]>> ELSE <<"op", e, xs[1], xs[2]>>

\* A variant of StepRange whose chunks start one element early.
StepRangeOverlapping(j, s) ==
    {j * (SkelChunk - 1) + s * SkelStep + l : l \in 0..(SkelStep - 1)}

\* The indices of step s of chunk j: par_chunks(CHUNKSZ) starts chunk j at
\* j * CHUNKSZ, chunks_exact(STEPSZ) starts step s at s * STEPSZ within it.
StepRange(j, s) ==
    {j * SkelChunk + s * SkelStep + l : l \in 0..(SkelStep - 1)}

\* The skeleton run the thread of e waits for.
RunAt(e) == IF spos[e] = "conv_wait" THEN "conv" ELSE "op"

InitSkel ==
    /\ sn \in [Evals -> 0..MaxChunks]
    /\ spos = [e \in Evals |-> "conv_call"]
    /\ cst = [e \in Evals |-> [r \in Runs |->
                 [j \in 0..(MaxChunks - 1) |-> [st |-> "pending", s |-> 0]]]]
    /\ wk = [w \in Workers |-> Idle]
    /\ mem = [b \in Bufs |-> [i \in 0..(MaxN - 1) |->
                 IF b = In THEN <<"in", i>> ELSE OldVal]]
    /\ acc = [b \in Bufs |-> [i \in 0..(MaxN - 1) |-> {}]]
    /\ jpc = "idle"
    /\ ja0 = "TBool" /\ jb0 = "TBool" /\ ja = "TBool" /\ jb = "TBool"
    /\ jframes = 0
    /\ jres = "none"
    /\ pc = "idle"
    /\ call = NoCall
    /\ res = NoRes

\* The thread of e enters a skeleton: the length assertions pass (the
\* slices have sn[e] whole chunks) and for_each offers the chunks.
SkelFork(e) ==
    /\ spos[e] \in {"conv_call", "op_call"}
    /\ spos' = [spos EXCEPT ![e] =
                   IF spos[e] = "conv_call" THEN "conv_wait" ELSE "op_wait"]
    /\ UNCHANGED <<sn, cst, wk, mem, acc, jvars, evars>>

\* An idle worker takes a chunk that no worker has taken.
ChunkTake(w, e, j) ==
    /\ wk[w] = Idle
    /\ spos[e] \in {"conv_wait", "op_wait"}
    /\ j < sn[e]
    /\ cst[e][RunAt(e)][j].st = "pending"
    /\ cst' = [cst EXCEPT ![e][RunAt(e)][j].st = "running"]
    /\ wk' = [wk EXCEPT ![w] = [e |-> e, r |-> RunAt(e), j |-> j]]
    /\ UNCHANGED <<sn, spos, mem, acc, jvars, evars>>

\* The body on a worker does one step: it loads a vector from each source
\* chunk, computes, and stores a vector into the destination chunk. After
\* the last step of the chunk the body returns and the worker is idle.
ChunkStep(w) ==
    /\ wk[w] # Idle
    /\ LET e == wk[w].e
           r == wk[w].r
           j == wk[w].j
           s == cst[e][r][j].s
           idx == StepRange(j, s)
           srcs == SrcsOf(e, r)
       IN /\ s < StepsPerChunk
          /\ mem' = [mem EXCEPT ![DstOf(e, r)] =
                [i \in 0..(MaxN - 1) |->
                    IF i \in idx
                    THEN LaneOf(e, r, [k \in 1..Len(srcs) |-> mem[srcs[k]][i]])
                    ELSE @[i]]]
          /\ acc' = [b \in Bufs |-> [i \in 0..(MaxN - 1) |->
                acc[b][i]
                \cup (IF i \in idx /\ \E k \in 1..Len(srcs) : srcs[k] = b
                      THEN {[e |-> e, r |-> r, j |-> j, kind |-> "read"]}
                      ELSE {})
                \cup (IF i \in idx /\ b = DstOf(e, r)
                      THEN {[e |-> e, r |-> r, j |-> j, kind |-> "write"]}
                      ELSE {})]]
          /\ cst' = [cst EXCEPT ![e][r][j] =
                [st |-> IF s + 1 = StepsPerChunk THEN "done" ELSE "running",
                 s |-> s + 1]]
          /\ wk' = [wk EXCEPT ![w] =
                IF s + 1 = StepsPerChunk THEN Idle ELSE @]
    /\ UNCHANGED <<sn, spos, jvars, evars>>

\* A variant of SkelJoin in which for_each returns without waiting.
SkelJoinWithoutWaiting(e) ==
    /\ spos[e] \in {"conv_wait", "op_wait"}
    /\ spos' = [spos EXCEPT ![e] =
                   IF spos[e] = "conv_wait" THEN "op_call" ELSE "returned"]
    /\ UNCHANGED <<sn, cst, wk, mem, acc, jvars, evars>>

\* for_each returns to the thread of e: the body has returned on every
\* chunk. After the conversion the thread goes on to the operation; after
\* the operation the entry point returns its result.
SkelJoin(e) ==
    /\ spos[e] \in {"conv_wait", "op_wait"}
    /\ \A j \in 0..(sn[e] - 1) : cst[e][RunAt(e)][j].st = "done"
    /\ spos' = [spos EXCEPT ![e] =
                   IF spos[e] = "conv_wait" THEN "op_call" ELSE "returned"]
    /\ UNCHANGED <<sn, cst, wk, mem, acc, jvars, evars>>

NextSkel ==
    \/ \E e \in Evals : SkelFork(e)
    \/ \E w \in Workers, e \in Evals, j \in 0..(MaxChunks - 1) :
          ChunkTake(w, e, j)
    \/ \E w \in Workers : ChunkStep(w)
    \/ \E e \in Evals : SkelJoin(e)

SpecSkel == InitSkel /\ [][NextSkel]_vars

(***************************************************************************)
(* The lattice rules of the specification, stated over widths and kinds    *)
(***************************************************************************)

\* Width in bits of an integer type.
BitsOf(t) ==
    CASE t \in {"TU8", "TI8"} -> 8
      [] t \in {"TU16", "TI16"} -> 16
      [] t \in {"TU32", "TI32"} -> 32
      [] t \in {"TU64", "TI64"} -> 64
      [] t \in {"TU128", "TI128"} -> 128

SignedOfBits(n) == CHOOSE t \in SignedTys : BitsOf(t) = n
WiderOf(x, y) == IF BitsOf(x) >= BitsOf(y) THEN x ELSE y

JoinTerminal == jpc \in {"done", "overflow"}

\* The pairs of claim C4, in either order, and the result the specification's
\* table gives them.
TableDomain(x, y) ==
    \/ x = y
    \/ x = "TF64" \/ y = "TF64"
    \/ {x, y} \subseteq UnsignedTys
    \/ {x, y} \subseteq SignedTys
    \/ \E u \in UnsignedTys, s \in SignedTys :
          /\ {x, y} = {u, s}
          /\ (BitsOf(s) > BitsOf(u) \/ (u = "TU128" /\ s = "TI128"))
    \/ \E t \in (UnsignedTys \cup SignedTys) : {x, y} = {"TF32", t}

TableResult(x, y) ==
    IF x = y THEN x
    ELSE IF "TF64" \in {x, y} THEN "TF64"
    ELSE IF "TF32" \in {x, y}
         THEN LET t == CHOOSE t \in {x, y} : t # "TF32" IN
              IF BitsOf(t) <= 32 THEN "TF32" ELSE "TF64"
    ELSE IF {x, y} \subseteq UnsignedTys \/ {x, y} \subseteq SignedTys
         THEN WiderOf(x, y)
    ELSE IF {x, y} = {"TU128", "TI128"} THEN "TF64"
    ELSE CHOOSE s \in {x, y} : s \in SignedTys

\* C1 (as claimed): join terminates and returns a ScalarTy for every ordered
\* pair of scalar types: no call overflows the stack, and a call that is
\* done has returned one of the thirteen types.
JoinIsTotal ==
    /\ jpc # "overflow"
    /\ (jpc = "done" => jres \in ScalarTy)

\* C2 (as claimed): for an unsigned U other than U128 and a signed S no
\* wider than U, join(U, S) and join(S, U) return the signed type one width
\* larger than U.
JoinUnsignedWithNarrowerSigned ==
    \A u \in UnsignedTys \ {"TU128"}, s \in SignedTys :
        (/\ JoinTerminal
         /\ BitsOf(s) <= BitsOf(u)
         /\ <<ja0, jb0>> \in {<<u, s>>, <<s, u>>})
        => (jpc = "done" /\ jres = SignedOfBits(2 * BitsOf(u)))

\* C3 (as claimed): join(Bool, X) = join(X, Bool) = X for every non-Bool X,
\* and join(Bool, Bool) = Bool.
JoinBoolIsIdentity ==
    (JoinTerminal /\ "TBool" \in {ja0, jb0})
    => (/\ jpc = "done"
        /\ jres = (IF ja0 = "TBool" THEN jb0 ELSE ja0))

\* C4: on the pairs of the specification's table (same-signedness integers,
\* unsigned with a strictly wider signed, U128 with I128, F32 with an
\* integer, F64 with anything, x with x) a join call returns, and returns
\* the table's result.
JoinAgreesWithTable ==
    (JoinTerminal /\ TableDomain(ja0, jb0))
    => (jpc = "done" /\ jres = TableResult(ja0, jb0))

\* Witness of C4: join(I128, U128), which the source reaches through its
\* swapping arm, has returned F64.
JoinTableWitness ==
    /\ jpc = "done"
    /\ ja0 = "TI128" /\ jb0 = "TU128"
    /\ jres = "TF64"

\* C5 (as claimed): for every pair, join(a, b) = join(b, a): a call returns
\* a type and the call with the arguments exchanged returns the same type.
JoinCommutes ==
    JoinTerminal
    => (/\ jpc = "done"
        /\ jres \in ScalarTy
        /\ jres = join(jb0, ja0))

(***************************************************************************)
(* Properties of evaluator calls                                           *)
(***************************************************************************)

\* An operation (not a conversion) was called and has returned.
Done == pc = "done" /\ call.entry # "conv"
\* A conversion was called and has returned.
ConvDone == pc = "done" /\ call.entry = "conv"
IsBinary == call.entry \in BinaryEntries

\* The promoted type T of the call and the element type U of its output.
PromotedTy ==
    IF IsBinary THEN join(call.lhs.ty, call.rhs.ty) ELSE call.lhs.ty
OutputTy ==
    IF call.entry \in {"val_binop", "val_unop"} THEN PromotedTy ELSE "TBool"
Promotes == PromotedTy \in ScalarTy

\* The slice operands of the call and the element types it handles.
SliceArgs == {x \in {call.lhs, call.rhs} : x.shape = "slice"}
SliceTys == {x.ty : x \in SliceArgs} \cup {PromotedTy, OutputTy}
MinSliceSize == CHOOSE z \in {SizeOf(t) : t \in SliceTys} :
                    \A t \in SliceTys : z <= SizeOf(t)

\* Every slice operand has n elements, and there is one.
SlicesOfLen(n) == SliceArgs # {} /\ \A x \in SliceArgs : x.len = n

\* The buffer named b, viewed as elements of ty, is aligned, a whole number
\* of elements, and holds at least n of them.
BufHolds(b, ty, n) ==
    /\ call.ctx[b].addr % AlignOf(ty) = 0
    /\ call.ctx[b].bytes % SizeOf(ty) = 0
    /\ call.ctx[b].bytes \div SizeOf(ty) >= n
ScratchHolds(n) ==
    /\ BufHolds("tmp1", PromotedTy, n)
    /\ BufHolds("tmp2", PromotedTy, n)
    /\ BufHolds("out", OutputTy, n)

\* The scalar operation of the call on element i of its operands, each
\* converted to T.
ArgAt(x, i) ==
    Cast(x.ty, PromotedTy,
         IF x.shape = "slice" THEN ElemAt(x.c, i) ELSE x.val)
ScalarResultAt(i) ==
    IF IsBinary
    THEN ScalarBin(call.op, PromotedTy, ArgAt(call.lhs, i), ArgAt(call.rhs, i))
    ELSE ScalarUn(call.op, PromotedTy, ArgAt(call.lhs, i))

\* The indices at which the output is compared: the ends of the first step,
\* of the first chunk and of the slice.
Probes(n) ==
    {i \in {0, 1,
            stepsz_min(PromotedTy, OutputTy) - 1,
            stepsz_min(PromotedTy, OutputTy),
            chunksz_min(PromotedTy, OutputTy) - 1,
            chunksz_min(PromotedTy, OutputTy),
            n - 1} : 0 <= i /\ i < n}

\* The call returned Ok with a slice of n elements of U in out, element i of
\* which is the scalar operation on element i of the operands.
ElementwiseOk(n) ==
    /\ res.status = "Ok"
    /\ res.val.shape = "slice"
    /\ res.val.ty = OutputTy
    /\ res.val.len = n
    /\ res.val.c = res.out
    /\ \A i \in Probes(n) : ElemAt(res.out, i) = ScalarResultAt(i)

\* C6 (as claimed): for a supported (op, T), operands of type T and slice
\* length n = k * chunksz(T, U), k >= 1, with aligned scratch buffers that
\* hold n elements, the call returns Ok and output element i is the scalar
\* operation on input element(s) i.
ChunkszMultipleEvaluates ==
    \A n \in SliceLens :
        (/\ Done /\ Promotes
         /\ PromotedTy \in ImplTys(call.op)
         /\ \A x \in SliceArgs : x.ty = PromotedTy
         /\ SlicesOfLen(n)
         /\ n >= 1
         /\ n % chunksz_min(PromotedTy, OutputTy) = 0
         /\ ScratchHolds(n))
        => ElementwiseOk(n)

\* C6 (amended): the same with n a multiple of CHUNKBYTES / s, s the
\* smallest size among the element types of the slice operands, T and U
\* (n = k * chunksz(T, T) for a value op on operands of type T,
\* n = k * CHUNKBYTES for a predicate op), the scalar operation being
\* applied to the elements converted to T.
SmallestChunkMultipleEvaluates ==
    \A n \in SliceLens :
        (/\ Done /\ Promotes
         /\ PromotedTy \in ImplTys(call.op)
         /\ SlicesOfLen(n)
         /\ n >= 1
         /\ n % (CHUNKBYTES \div MinSliceSize) = 0
         /\ ScratchHolds(n))
        => ElementwiseOk(n)

\* Witness of C6: Lt on two U128 slices of CHUNKBYTES elements (sixteen
\* chunks of the kernel) has returned Ok.
PredicateOnWideTypeWitness ==
    /\ Done
    /\ call.entry = "bool_binop" /\ call.op = "Lt"
    /\ call.lhs.ty = "TU128" /\ call.rhs.ty = "TU128"
    /\ SlicesOfLen(CHUNKBYTES)
    /\ Cardinality(SliceArgs) = 2
    /\ ScratchHolds(CHUNKBYTES)
    /\ res.status = "Ok"

\* The "Unsupported on" column of the specification's support matrix.
MatrixUnsupported(op, T) ==
    \/ /\ op \in {"Add", "Sub", "Mul", "Div", "Rem", "Min", "Max"}
             \cup BoolBinOpCode
       /\ T = "TBool"
    \/ /\ op \in {"BitAnd", "BitOr", "BitXor", "BitNot"}
       /\ T \in {"TBool"} \cup FloatTys
    \/ /\ op = "Neg"
       /\ T \in {"TBool"} \cup UnsignedTys
    \/ /\ op \in {"Pow", "Ln", "Exp", "Sqrt", "Sin", "Cos", "Abs",
                  "IsNaN", "IsInf", "IsFin"}
       /\ T \in {"TBool"} \cup IntTys

\* C7 (as claimed): for an (opcode, T) of the unsupported column the entry
\* point returns UnsupportedOp for every operand shape (so neither Ok nor a
\* panic) and does not write to out.
UnsupportedAlwaysReported ==
    (Done /\ Promotes /\ MatrixUnsupported(call.op, PromotedTy))
    => (res.status = "UnsupportedOp" /\ res.out = Old)

\* The checks an arm makes before it dispatches on the opcode.
CheckSteps == {"tm", "bound", "eqlen", "oklen"}
LastStep == res.ev[Len(res.ev)]

\* The operands and buffers pass every check of any shape: the slices have
\* a common length that is a multiple of CHUNKBYTES, and each buffer is
\* 16-aligned, a multiple of 16 bytes long and has room for that many
\* 16-byte elements.
PassesAllChecks ==
    \/ SliceArgs = {}
    \/ \E n \in SliceLens :
          /\ SlicesOfLen(n)
          /\ n % CHUNKBYTES = 0
          /\ \A b \in {"tmp1", "tmp2", "out"} :
                /\ call.ctx[b].addr % 16 = 0
                /\ call.ctx[b].bytes % 16 = 0
                /\ call.ctx[b].bytes >= 16 * n

\* C7 (amended): for an (opcode, T) of the unsupported column the entry
\* point returns UnsupportedOp when the checks of its shape on buffers and
\* lengths pass and BadBuffer when one of them fails; it never returns Ok,
\* never panics and never writes to out.
UnsupportedReportedAfterChecks ==
    (Done /\ Promotes /\ MatrixUnsupported(call.op, PromotedTy))
    => (/\ res.status \in {"UnsupportedOp", "BadBuffer"}
        /\ res.out = Old
        /\ (res.status = "BadBuffer" => LastStep[1] \in CheckSteps)
        /\ (res.status = "UnsupportedOp" => LastStep = <<"op", call.op>>)
        /\ (PassesAllChecks => res.status = "UnsupportedOp"))

\* Witness of C7: BitAnd on two F64 slices that pass every check has
\* returned UnsupportedOp.
UnsupportedWitness ==
    /\ Done
    /\ call.entry = "val_binop" /\ call.op = "BitAnd"
    /\ call.lhs.ty = "TF64" /\ call.rhs.ty = "TF64"
    /\ Cardinality(SliceArgs) = 2
    /\ PassesAllChecks
    /\ res.status = "UnsupportedOp"
    /\ res.out = Old

\* tmp1 does not start at a multiple of alignof(T).
Tmp1Misaligned == call.ctx.tmp1.addr % AlignOf(PromotedTy) # 0

\* No conversion (of a slice or of a constant) and no operation kernel ran.
NoKernelRan ==
    \A i \in 1..Len(res.ev) :
        res.ev[i][1] \notin {"conv", "conv_noop", "conv_const", "op"}

\* C8 (as claimed): with tmp1 misaligned for T, any operation on that type
\* returns BadBuffer, before any conversion or operation kernel runs.
MisalignedTmp1Rejected ==
    (Done /\ Promotes /\ Tmp1Misaligned)
    => (res.status = "BadBuffer" /\ NoKernelRan)

\* C8 (amended): with tmp1 misaligned for T, every operation whose left (or
\* only) operand is a slice returns BadBuffer before any conversion or
\* operation kernel runs, leaving the three buffers as they were.
MisalignedTmp1RejectedForSliceLhs ==
    (Done /\ Promotes /\ Tmp1Misaligned /\ call.lhs.shape = "slice")
    => (/\ res.status = "BadBuffer"
        /\ NoKernelRan
        /\ res.ev = << <<"tm", "tmp1">> >>
        /\ res.tmp1 = Old /\ res.tmp2 = Old /\ res.out = Old)

\* Witness of C8: Add on two U64 slices with tmp1 one byte off has returned
\* BadBuffer.
MisalignedTmp1Witness ==
    /\ Done
    /\ call.entry = "val_binop" /\ call.op = "Add"
    /\ call.lhs.ty = "TU64" /\ call.rhs.ty = "TU64"
    /\ Cardinality(SliceArgs) = 2
    /\ call.ctx.tmp1.addr % 8 = 1
    /\ res.status = "BadBuffer"

\* C9 (as claimed): in the slice-slice shape of val_binop and bool_binop,
\* two slices of different lengths, each a chunk multiple that fits the
\* scratch, make the call return BadBuffer (no panic, no result). The
\* opcode is one T supports: an unsupported one is the case of C7.
UnequalLengthsRejected ==
    (/\ Done /\ Promotes /\ IsBinary
     /\ PromotedTy \in ImplTys(call.op)
     /\ call.lhs.shape = "slice" /\ call.rhs.shape = "slice"
     /\ call.lhs.len # call.rhs.len
     /\ \A x \in SliceArgs :
           /\ x.len % (CHUNKBYTES \div MinSliceSize) = 0
           /\ ScratchHolds(x.len))
    => res.status = "BadBuffer"

\* The buffers the call reinterpreted with transmute_buf_mut.
Reinterpreted ==
    {b \in {"tmp1", "tmp2", "out"} :
        \E i \in 1..Len(res.ev) : res.ev[i] = <<"tm", b>>}

\* C10 (as claimed): a call that reinterprets a scratch buffer whose byte
\* length is not a multiple of CHUNKBYTES returns BadBuffer. The opcode is
\* one T supports: an unsupported one is the case of C7.
OddChunkBufferRejected ==
    (/\ Done /\ Promotes
     /\ PromotedTy \in ImplTys(call.op)
     /\ \E b \in Reinterpreted : call.ctx[b].bytes % CHUNKBYTES # 0)
    => res.status = "BadBuffer"

\* The operation kernel (and with it the length assertions of its skeleton)
\* was reached.
OpKernelReached ==
    \E i \in 1..Len(res.ev) : res.ev[i][1] = "op"

\* C11: when a slice operand's length is not a multiple of chunksz(T, U),
\* the call returns BadBuffer, and the operation kernel, whose skeleton
\* asserts the length, is never reached.
NonChunkLengthRejected ==
    (/\ Done /\ Promotes
     /\ \E x \in SliceArgs :
           x.len % chunksz_min(PromotedTy, OutputTy) # 0)
    => (res.status = "BadBuffer" /\ ~OpKernelReached)

\* Witness of C11: Add on a U128 and an I128 slice of 4096 elements, which
\* is one chunk of each operand but half a chunk of T = F64, has returned
\* BadBuffer after both conversions ran.
NonChunkLengthWitness ==
    /\ Done
    /\ call.entry = "val_binop" /\ call.op = "Add"
    /\ call.lhs.ty = "TU128" /\ call.rhs.ty = "TI128"
    /\ PromotedTy = "TF64"
    /\ SlicesOfLen(CHUNKBYTES \div 16)
    /\ Cardinality(SliceArgs) = 2
    /\ call.ctx.tmp1.bytes = 16 * CHUNKBYTES
    /\ res.status = "BadBuffer"
    /\ LastStep = <<"bound", "out">>

\* The buffers the shape of the call uses: out, tmp1 for a slice on the left
\* (or the only operand), tmp2 for a slice on the right; and the element
\* type each is viewed as.
UsedBufs ==
    (IF SliceArgs # {} THEN {"out"} ELSE {})
    \cup (IF call.lhs.shape = "slice" THEN {"tmp1"} ELSE {})
    \cup (IF call.rhs.shape = "slice" THEN {"tmp2"} ELSE {})
BufTy(b) == IF b = "out" THEN OutputTy ELSE PromotedTy

\* The used buffers that hold fewer than n elements of their type.
ShortBufs(n) ==
    {b \in UsedBufs : call.ctx[b].bytes \div SizeOf(BufTy(b)) < n}

\* C12: when out, or the tmp buffer a slice operand is converted into, holds
\* fewer elements of its type than the length n of the slice operand(s), the
\* call returns BadBuffer and nothing is written to that buffer.
ShortBufferRejected ==
    \A n \in SliceLens :
        (Done /\ Promotes /\ SlicesOfLen(n) /\ ShortBufs(n) # {})
        => (/\ res.status = "BadBuffer"
            /\ \A b \in ShortBufs(n) : res[b] = Old)

\* Witness of C12: Add on a U8 and an I8 slice of CHUNKBYTES elements with an
\* out of CHUNKBYTES bytes (half as many I16 elements) has returned BadBuffer
\* after both conversions wrote their tmp buffer, and out is as it was.
ShortOutWitness ==
    /\ Done
    /\ call.entry = "val_binop" /\ call.op = "Add"
    /\ call.lhs.ty = "TU8" /\ call.rhs.ty = "TI8"
    /\ PromotedTy = "TI16"
    /\ SlicesOfLen(CHUNKBYTES)
    /\ Cardinality(SliceArgs) = 2
    /\ ShortBufs(CHUNKBYTES) = {"out"}
    /\ res.status = "BadBuffer"
    /\ LastStep = <<"bound", "out">>
    /\ res.tmp1 # Old /\ res.tmp2 # Old
    /\ res.out = Old

\* Both operands of a binary call are slices of n elements.
BothSlicesOfLen(n) ==
    /\ IsBinary
    /\ call.lhs.shape = "slice" /\ call.rhs.shape = "slice"
    /\ call.lhs.len = n /\ call.rhs.len = n

\* C13: for val_binop (bool_binop) with a supported (op, T) and two slice
\* operands of length n, the result is an OperandSlice of scalar type
\* T = join(typeof(lhs), typeof(rhs)) (of scalar type Bool) and of length n:
\* every Ok result has that shape, type and length, and the call does return
\* Ok when n and the scratch buffers pass the checks.
SliceSliceResultTyped ==
    \A n \in SliceLens :
        (/\ Done /\ Promotes
         /\ PromotedTy \in ImplTys(call.op)
         /\ BothSlicesOfLen(n))
        => (/\ res.status \in {"Ok", "BadBuffer"}
            /\ (res.status = "Ok"
                => (/\ res.val.shape = "slice"
                    /\ res.val.ty = OutputTy
                    /\ res.val.len = n))
            /\ (/\ n % (CHUNKBYTES \div MinSliceSize) = 0
                /\ ScratchHolds(n))
               => res.status = "Ok")

\* Witness of C13: Add on a U8 and an I8 slice of CHUNKBYTES elements has
\* returned a slice of CHUNKBYTES elements of I16.
SliceSliceResultWitness ==
    /\ Done
    /\ call.entry = "val_binop" /\ call.op = "Add"
    /\ call.lhs.ty = "TU8" /\ call.rhs.ty = "TI8"
    /\ BothSlicesOfLen(CHUNKBYTES)
    /\ res.status = "Ok"
    /\ res.val.shape = "slice"
    /\ res.val.ty = "TI16"
    /\ res.val.len = CHUNKBYTES

\* No step of the call examined a buffer (reinterpreted it or bound it to a
\* length).
NoBufferExamined ==
    \A i \in 1..Len(res.ev) : res.ev[i][1] \notin {"tm", "bound", "oklen"}

\* C14: for a pair of Const operands and a supported (op, T) the result is
\* an OperandConst holding the scalar operation on the two values converted
\* to T, and the call neither examines nor writes tmp1, tmp2 or out: it
\* succeeds whatever the alignment and size of the scratch buffers.
ConstConstIsScalar ==
    (/\ Done /\ IsBinary /\ Promotes
     /\ PromotedTy \in ImplTys(call.op)
     /\ call.lhs.shape = "const" /\ call.rhs.shape = "const")
    => (/\ res.status = "Ok"
        /\ res.val.shape = "const"
        /\ res.val.ty = OutputTy
        /\ res.val.val =
              ScalarBin(call.op, PromotedTy,
                        Cast(call.lhs.ty, PromotedTy, call.lhs.val),
                        Cast(call.rhs.ty, PromotedTy, call.rhs.val))
        /\ NoBufferExamined
        /\ res.tmp1 = Old /\ res.tmp2 = Old /\ res.out = Old)

\* Witness of C14: Add on the constants TRUE (Bool) and 6 (F64), with out at
\* a misaligned address, has returned the F64 constant 1 + 6.
ConstConstWitness ==
    /\ Done
    /\ call.entry = "val_binop" /\ call.op = "Add"
    /\ call.lhs = OperandConst("TBool", TRUE)
    /\ call.rhs = OperandConst("TF64", 6)
    /\ call.ctx.out.addr % 8 # 0
    /\ res.status = "Ok"
    /\ res.val = OperandConst("TF64", ScalarBin("Add", "TF64", 1, 6))

\* The operand x converted to the promoted type by EvalCtx::conv, in a
\* well-formed context of its own.
ConvertsToPromoted(x) == conv(x, PromotedTy, GoodCtx).status = "Ok"
ConvertedToPromoted(x) == conv(x, PromotedTy, GoodCtx).val

\* The binary call of the state, made on the converted operands.
CallOnConverted ==
    IF call.entry = "val_binop"
    THEN val_binop(call.op, ConvertedToPromoted(call.lhs),
                   ConvertedToPromoted(call.rhs), call.ctx)
    ELSE bool_binop(call.op, ConvertedToPromoted(call.lhs),
                    ConvertedToPromoted(call.rhs), call.ctx)

\* Two results are the same: the same status and the same operand (a
\* constant of the same type and value, or a slice of the same type and
\* length with the same elements).
SameResult(r, q) ==
    /\ r.status = q.status
    /\ r.val.shape = q.val.shape
    /\ r.val.shape = "const"
       => (r.val.ty = q.val.ty /\ r.val.val = q.val.val)
    /\ r.val.shape = "slice"
       => (/\ r.val.ty = q.val.ty
           /\ r.val.len = q.val.len
           /\ \A i \in Probes(r.val.len) :
                 ElemAt(r.val.c, i) = ElemAt(q.val.c, i))

\* C15: for operands a of type T1 and b of type T2 with T = join(T1, T2),
\* the result of op(a, b) is the result of op on a and b each converted to T
\* by the conversion kernels beforehand.
PromotionIsCoherent ==
    (/\ Done /\ IsBinary /\ Promotes
     /\ ConvertsToPromoted(call.lhs) /\ ConvertsToPromoted(call.rhs))
    => SameResult(res, CallOnConverted)

\* Witness of C15: Add on a U8 and an I8 slice of CHUNKBYTES elements has
\* returned I16 elements, element 3 being the sum of 200 and 100 computed
\* in I16.
PromotionWitness ==
    /\ Done
    /\ call.entry = "val_binop" /\ call.op = "Add"
    /\ call.lhs.ty = "TU8" /\ call.rhs.ty = "TI8"
    /\ BothSlicesOfLen(CHUNKBYTES)
    /\ ConvertsToPromoted(call.lhs) /\ ConvertsToPromoted(call.rhs)
    /\ res.status = "Ok"
    /\ res.val.ty = "TI16"
    /\ ElemAt(call.lhs.c, 3) = 200 /\ ElemAt(call.rhs.c, 3) = 100
    /\ ElemAt(res.out, 3) = ScalarBin("Add", "TI16", 200, 100)

\* A conversion of a slice to its own scalar type was called and returned.
IdentityConvDone ==
    ConvDone /\ call.lhs.shape = "slice" /\ call.op = call.lhs.ty

\* C16 (as claimed): converting a slice to its own scalar type returns a
\* slice with the base and length of the input and writes no byte of tmp1,
\* tmp2 or out.
IdentityConvReturnsInput ==
    IdentityConvDone
    => (/\ res.status = "Ok"
        /\ res.val.shape = "slice"
        /\ res.val.base = call.lhs.base
        /\ res.val.len = call.lhs.len
        /\ res.tmp1 = Old /\ res.tmp2 = Old /\ res.out = Old)

\* The checks that precede the identity conversion of the slice x of type
\* ty with the buffer b as its target pass.
IdentityConvChecksPass(x, b) ==
    /\ call.ctx[b].addr % AlignOf(x.ty) = 0
    /\ call.ctx[b].bytes % SizeOf(x.ty) = 0
    /\ x.len % (CHUNKBYTES \div SizeOf(x.ty)) = 0
    /\ call.ctx[b].bytes \div SizeOf(x.ty) >= x.len

\* C16 (amended): converting a slice to its own scalar type never writes a
\* byte of tmp1, tmp2 or out. EvalCtx::conv with ty = typeof(x) returns the
\* input slice itself (same base, length and contents) when out passes the
\* checks as a target for x, and BadBuffer otherwise. In the router, the
\* conversion step of a slice operand already of type T leaves the operand's
\* tmp buffer unwritten, and the kernel reads the operand where it is.
IdentityConvIsZeroCopy ==
    /\ IdentityConvDone
       => (/\ res.status \in {"Ok", "BadBuffer"}
           /\ res.tmp1 = Old /\ res.tmp2 = Old /\ res.out = Old
           /\ res.status = "Ok" => res.val = call.lhs
           /\ res.status = "Ok" <=> IdentityConvChecksPass(call.lhs, "out"))
    /\ (Done /\ Promotes /\ call.lhs.shape = "slice"
        /\ call.lhs.ty = PromotedTy)
       => (/\ res.tmp1 = Old
           /\ \A i \in 1..Len(res.ev) : res.ev[i] # <<"conv", "tmp1">>
           /\ res.status = "Ok" => res.out.a = call.lhs.c)
    /\ (Done /\ Promotes /\ call.rhs.shape = "slice"
        /\ call.rhs.ty = PromotedTy)
       => (/\ res.tmp2 = Old
           /\ \A i \in 1..Len(res.ev) : res.ev[i] # <<"conv", "tmp2">>
           /\ res.status = "Ok" => res.out.b = call.rhs.c)

\* Witness of C16: the conversion of a U64 slice of CHUNKBYTES elements to
\* U64 has returned the input slice, with out as it was.
IdentityConvWitness ==
    /\ IdentityConvDone
    /\ call.lhs.ty = "TU64"
    /\ call.lhs.len = CHUNKBYTES
    /\ res.status = "Ok"
    /\ res.val = call.lhs
    /\ res.val.base = "lhs"
    /\ res.out = Old

(***************************************************************************)
(* Properties of skeleton runs                                             *)
(***************************************************************************)

\* The thread of e is past the skeleton run r: for_each has returned.
PastRun(e, r) ==
    \/ r = "conv" /\ spos[e] \in {"op_call", "op_wait", "returned"}
    \/ r = "op" /\ spos[e] = "returned"

\* The elements of chunk j.
ChunkRange(j) == (j * SkelChunk)..((j + 1) * SkelChunk - 1)

\* The body of run r of e has run to completion on chunk j: it has returned
\* after all its steps, and every element of the chunk is written.
ChunkComplete(e, r, j) ==
    /\ cst[e][r][j].st = "done"
    /\ cst[e][r][j].s = StepsPerChunk
    /\ \A i \in ChunkRange(j) : mem[DstOf(e, r)][i] # OldVal

\* C17: when a skeleton returns, the chunk body has run to completion on
\* every one of the n / chunksz chunks (and on no other), whatever the order
\* in which the workers took them, and no worker still holds a chunk of it;
\* so an entry point never returns while a chunk is pending or in progress.
SkeletonReturnsAfterEveryChunk ==
    \A e \in Evals, r \in Runs :
        PastRun(e, r)
        => (/\ \A j \in 0..(MaxChunks - 1) :
                  IF j < sn[e] THEN ChunkComplete(e, r, j)
                  ELSE cst[e][r][j] = [st |-> "pending", s |-> 0]
            /\ \A w \in Workers : ~(wk[w].e = e /\ wk[w].r = r))

\* Witness of C17: the entry point of evaluation 1 has returned with
\* MaxChunks chunks, while a worker holds a chunk of evaluation 2 that it
\* has not finished.
SkeletonReturnWitness ==
    /\ spos # <<>>
    /\ spos[1] = "returned"
    /\ sn[1] = MaxChunks
    /\ \A j \in 0..(MaxChunks - 1) : ChunkComplete(1, "op", j)
    /\ \E w \in Workers : wk[w].e = 2 /\ cst[2][wk[w].r][wk[w].j].s = 0

\* C18: the body for chunk j reads only input indices of chunk j and writes
\* only output indices of chunk j. Hence two bodies access the same element
\* of a buffer, one of them writing, only as the conversion and the
\* operation of one evaluation (the one writes tmp, the other reads it), and
\* those never run at the same time.
ChunksAreExclusive ==
    /\ \A b \in Bufs, i \in 0..(MaxN - 1) :
          /\ \A a \in acc[b][i] : i \in ChunkRange(a.j)
          /\ \A a1 \in acc[b][i], a2 \in acc[b][i] :
                (/\ <<a1.e, a1.r, a1.j>> # <<a2.e, a2.r, a2.j>>
                 /\ "write" \in {a1.kind, a2.kind})
                => (a1.e = a2.e /\ a1.r # a2.r)
    /\ \A w1 \in Workers, w2 \in Workers :
          (wk[w1] # Idle /\ wk[w2] # Idle /\ wk[w1].e = wk[w2].e)
          => wk[w1].r = wk[w2].r

\* Witness of C18: two workers each hold an unfinished chunk of the
\* operation of evaluation 1.
ConcurrentChunksWitness ==
    /\ wk # <<>>
    /\ \E w1 \in Workers, w2 \in Workers :
          /\ w1 # w2
          /\ wk[w1].e = 1 /\ wk[w2].e = 1
          /\ wk[w1].r = "op" /\ wk[w2].r = "op"
          /\ cst[1]["op"][wk[w1].j].st = "running"
          /\ cst[1]["op"][wk[w2].j].st = "running"

\* What evaluation e leaves in its tmp and out buffer when it runs alone.
AloneTmp(e) ==
    [i \in 0..(MaxN - 1) |->
        IF i < sn[e] * SkelChunk THEN <<"conv", e, <<"in", i>>>> ELSE OldVal]
AloneOut(e) ==
    [i \in 0..(MaxN - 1) |->
        IF i < sn[e] * SkelChunk
        THEN <<"op", e, <<"conv", e, <<"in", i>>>>, <<"in", i>>>>
        ELSE OldVal]

\* C19: two evaluations on threads of their own, with buffers of their own
\* and a shared input, each return what they return when run alone, under
\* every interleaving of their chunk bodies on the workers of the pool.
ConcurrentEvaluationsAreIndependent ==
    \A e \in Evals :
        spos[e] = "returned"
        => (/\ mem[Out(e)] = AloneOut(e)
            /\ mem[Tmp(e)] = AloneTmp(e)
            /\ mem[In] = [i \in 0..(MaxN - 1) |-> <<"in", i>>])

\* Witness of C19: both evaluations have returned, with MaxChunks chunks
\* each, having both read the shared input, and each has its own result.
ConcurrentEvaluationsWitness ==
    /\ spos # <<>>
    /\ \E a1 \in acc[In][0], a2 \in acc[In][0] : a1.e = 1 /\ a2.e = 2
    /\ spos[1] = "returned" /\ spos[2] = "returned"
    /\ sn[1] = MaxChunks /\ sn[2] = MaxChunks
    /\ mem[Out(1)] = AloneOut(1)
    /\ mem[Out(2)] = AloneOut(2)
    /\ mem[Out(1)] # mem[Out(2)]

(***************************************************************************)
(* C20: a constant operand against the slice that repeats it               *)
(***************************************************************************)

\* One operand of the binary call is a slice and the other a constant.
SliceAgainstConst ==
    /\ IsBinary
    /\ \/ call.lhs.shape = "slice" /\ call.rhs.shape = "const"
       \/ call.lhs.shape = "const" /\ call.rhs.shape = "slice"

\* The slice b of n elements of the constant's type whose every element is
\* the constant c.
BroadcastSlice(c, n, side) ==
    [shape |-> "slice", ty |-> c.ty, len |-> n, base |-> side,
     c |-> Splat(c.val)]

\* The scratch buffer that only the slice-slice form of the call uses: the
\* one b is converted into.
BroadcastScratch ==
    IF call.rhs.shape = "const" THEN call.ctx.tmp2 ELSE call.ctx.tmp1

\* The binary call of the state with its constant operand replaced by b.
CallOnBroadcast ==
    LET l == IF call.lhs.shape = "const"
             THEN BroadcastSlice(call.lhs, call.rhs.len, "lhs")
             ELSE call.lhs
        r == IF call.rhs.shape = "const"
             THEN BroadcastSlice(call.rhs, call.lhs.len, "rhs")
             ELSE call.rhs
    IN IF call.entry = "val_binop"
       THEN val_binop(call.op, l, r, call.ctx)
       ELSE bool_binop(call.op, l, r, call.ctx)

\* C20: for every supported binary op and type T, with a and c of type T,
\* op(slice a, const c) gives the same output as op(slice a, slice b), and
\* op(const c, slice a) the same as op(slice b, slice a), where b is the
\* slice of a's length whose every element is c; compared where the scratch
\* buffer that b is bound against is well-formed.
ConstIsBroadcastSlice ==
    (/\ Done /\ SliceAgainstConst /\ Promotes
     /\ call.lhs.ty = call.rhs.ty
     /\ PromotedTy \in ImplTys(call.op)
     /\ BroadcastScratch = GoodBuf)
    => (/\ SameResult(res, CallOnBroadcast)
        /\ (res.out = Old) = (CallOnBroadcast.out = Old))

\* Witness of C20: Lt on a U16 slice of CHUNKBYTES elements against a U16
\* constant has returned Bool elements, element 1 being 200 < 4, and so has
\* the call on the slice that repeats the constant.
ConstIsBroadcastWitness ==
    /\ Done
    /\ call.entry = "bool_binop" /\ call.op = "Lt"
    /\ call.lhs.shape = "slice" /\ call.lhs.ty = "TU16"
    /\ call.lhs.len = CHUNKBYTES
    /\ call.rhs = OperandConst("TU16", 4)
    /\ call.ctx = GoodCtx
    /\ res.status = "Ok"
    /\ res.val.ty = "TBool" /\ res.val.len = CHUNKBYTES
    /\ ElemAt(res.out, 1) = ScalarBin("Lt", "TU16", 200, 4)
    /\ CallOnBroadcast.status = "Ok"
    /\ ElemAt(CallOnBroadcast.out, 1) = ScalarBin("Lt", "TU16", 200, 4)

(***************************************************************************)
(* C21, C22: conversion round trips                                        *)
(***************************************************************************)

\* The call of conv of the state has returned Ok, and its result converted
\* to the type ty by a second call of conv, on an EvalCtx of its own.
ConvBack(ty) == conv(res.val, ty, GoodCtx)

\* Element i of an operand: the constant itself, or element i of the slice.
\* The indices looked at are those of a constant (0 only) or the probes of a
\* slice, which cover one period of every pattern.
ValAt(x, i) == IF x.shape = "const" THEN x.val ELSE ElemAt(x.c, i)
RoundTripProbes(x) ==
    IF x.shape = "const" THEN {0}
    ELSE {i \in {0, 1, 2, 3, x.len - 1} : 0 <= i /\ i < x.len}

\* C21: for every numeric type T and every value x of T, converting x to
\* Bool and the result back to T gives 0 if x = 0 and 1 otherwise, on the
\* constant path and on the slice path of EvalCtx::conv (where both
\* conversions return Ok).
BoolRoundTripIsZeroOrOne ==
    (/\ ConvDone /\ call.op = "TBool" /\ call.lhs.ty # "TBool"
     /\ res.status = "Ok" /\ ConvBack(call.lhs.ty).status = "Ok")
    => (/\ ConvBack(call.lhs.ty).val.shape = call.lhs.shape
        /\ ConvBack(call.lhs.ty).val.ty = call.lhs.ty
        /\ \A i \in RoundTripProbes(call.lhs) :
              ValAt(ConvBack(call.lhs.ty).val, i)
                = (IF ValAt(call.lhs, i) = 0 THEN 0 ELSE 1))

\* Witness of C21 on the slice path: an I16 slice of CHUNKBYTES elements that
\* starts 0, -3, 100 was converted to Bool and back to 0, 1, 1.
BoolRoundTripSliceWitness ==
    /\ ConvDone /\ call.op = "TBool" /\ call.lhs.ty = "TI16"
    /\ call.lhs.shape = "slice" /\ call.lhs.len = CHUNKBYTES
    /\ ElemAt(call.lhs.c, 0) = 0 /\ ElemAt(call.lhs.c, 1) = -3
    /\ res.status = "Ok"
    /\ ElemAt(res.out, 0) = FALSE /\ ElemAt(res.out, 1) = TRUE
    /\ ConvBack("TI16").status = "Ok"
    /\ ElemAt(ConvBack("TI16").out, 0) = 0
    /\ ElemAt(ConvBack("TI16").out, 1) = 1
    /\ ElemAt(ConvBack("TI16").out, 2) = 1

\* The call of conv converts an unsigned type to the signed type of the same
\* width.
ToSignedOfSameWidth ==
    /\ ConvDone
    /\ call.lhs.ty \in UnsignedTys
    /\ call.op \in SignedTys
    /\ SizeOf(call.op) = SizeOf(call.lhs.ty)

\* C22: for every signed/unsigned pair (S, U) of equal width and every x of
\* type U, conv(conv(x, S), U) = x: the integer conversions wrap and do not
\* saturate, so the round trip is exact for the values representable in both
\* types and for the others as well.
SameWidthRoundTripIsIdentity ==
    (/\ ToSignedOfSameWidth
     /\ res.status = "Ok" /\ ConvBack(call.lhs.ty).status = "Ok")
    => (/\ ConvBack(call.lhs.ty).val.shape = call.lhs.shape
        /\ ConvBack(call.lhs.ty).val.ty = call.lhs.ty
        /\ \A i \in RoundTripProbes(call.lhs) :
              ValAt(ConvBack(call.lhs.ty).val, i) = ValAt(call.lhs, i))

\* Witness of C22: a U8 slice of CHUNKBYTES elements that starts 0, 1, 200
\* was converted to I8, where 1 stays 1 and 200 wraps to -56, and back to
\* 0, 1, 200.
SameWidthRoundTripWitness ==
    /\ ToSignedOfSameWidth
    /\ call.lhs.ty = "TU8" /\ call.lhs.shape = "slice"
    /\ call.lhs.len = CHUNKBYTES
    /\ ElemAt(call.lhs.c, 1) = 1 /\ ElemAt(call.lhs.c, 2) = 200
    /\ res.status = "Ok"
    /\ ElemAt(res.out, 1) = 1 /\ ElemAt(res.out, 2) = -56
    /\ ConvBack("TU8").status = "Ok"
    /\ ElemAt(ConvBack("TU8").out, 1) = 1
    /\ ElemAt(ConvBack("TU8").out, 2) = 200

(***************************************************************************)
(* C23: the buffer size of the tests                                       *)
(***************************************************************************)

\* The call, of any entry point, has returned.
Returned == pc = "done"

\* C23: with tmp1, tmp2 and out of exactly 16 x CHUNKBYTES bytes each,
\* suitably aligned, and slice operands of 65536 elements, no entry point
\* returns BadBuffer, whatever the opcode and the operand types.
SixteenChunksSuffice ==
    (/\ Returned
     /\ call.ctx = GoodCtx
     /\ GoodBuf.bytes = 16 * CHUNKBYTES
     /\ SlicesOfLen(65536))
    => (/\ res.status # "BadBuffer"
        /\ res.status # "Panic")

\* Witness of C23, the worst case: Lt on two U128 slices of 65536 elements,
\* which fill tmp1 and tmp2 exactly, has returned 65536 Bool elements.
SixteenChunksWitness ==
    /\ Returned
    /\ call.ctx = GoodCtx
    /\ call.entry = "bool_binop" /\ call.op = "Lt"
    /\ call.lhs.ty = "TU128" /\ call.rhs.ty = "TU128"
    /\ SlicesOfLen(65536)
    /\ call.lhs.shape = "slice" /\ call.rhs.shape = "slice"
    /\ 65536 * SizeOf("TU128") = GoodBuf.bytes
    /\ res.status = "Ok"
    /\ res.val.ty = "TBool" /\ res.val.len = 65536

(***************************************************************************)
(* C24: whole chunks, whole steps, every index written once                *)
(***************************************************************************)

\* The skeleton runs of the call: what it left in the buffers it wrote.
SkelRuns ==
    {c \in {res.tmp1, res.tmp2, res.out} : c.k = "skel"}

\* The chunks par_chunks(chunk) cuts n elements into, as <<start, length>>:
\* the last one is shorter when chunk does not divide n.
ChunkOfIndex(c, j) ==
    <<j * c.chunk,
      IF c.n - j * c.chunk < c.chunk THEN c.n - j * c.chunk ELSE c.chunk>>
NumChunks(c) == (c.n + c.chunk - 1) \div c.chunk

\* The invocations (chunk j, step s) of the body of the run c that write
\* index i: chunks_exact(step) yields the whole steps of a chunk only. The
\* candidates are the chunk and step that hold i and their neighbours.
WritersOf(c, i) ==
    LET j0 == i \div c.chunk
        s0 == (i % c.chunk) \div c.step
        steps == (c.chunk \div c.step)
    IN {js \in ((j0 - 1)..(j0 + 1)) \X {s0 - 1, s0, s0 + 1, 0, steps - 1} :
          /\ js[1] >= 0 /\ js[1] < NumChunks(c) /\ js[2] >= 0
          /\ (js[2] + 1) * c.step <= ChunkOfIndex(c, js[1])[2]
          /\ ChunkOfIndex(c, js[1])[1] + js[2] * c.step <= i
          /\ i < ChunkOfIndex(c, js[1])[1] + (js[2] + 1) * c.step}

\* The indices looked at in a run over n elements: around the first step and
\* chunk boundaries, and the last index.
RunProbes(c) ==
    {i \in {0, c.step - 1, c.step, c.chunk - 1, c.chunk, c.n - 1} :
        0 <= i /\ i < c.n}

\* C24: every invocation of a chunk body gets chunks of exactly chunksz(T, U)
\* elements (no shorter trailing chunk), a chunk is exactly
\* chunksz / stepsz = 1024 steps, and over all invocations every output
\* index in [0, n) is written exactly once.
ChunksAreWholeAndWrittenOnce ==
    Returned =>
      \A c \in SkelRuns :
         /\ \A j \in 0..(NumChunks(c) - 1) : ChunkOfIndex(c, j)[2] = c.chunk
         /\ c.chunk % c.step = 0
         /\ c.chunk \div c.step = 1024
         /\ \A i \in RunProbes(c) : Cardinality(WritersOf(c, i)) = 1
         /\ WritersOf(c, c.n) = {}

\* Witness of C24: Add on two U16 slices of 2 x CHUNKBYTES elements has run
\* the binary skeleton over four chunks of 32768 elements, each of 1024
\* steps of 32 lanes.
WholeChunksWitness ==
    /\ Done /\ call.entry = "val_binop" /\ call.op = "Add"
    /\ call.lhs.ty = "TU16" /\ BothSlicesOfLen(2 * CHUNKBYTES)
    /\ res.status = "Ok"
    /\ res.out \in SkelRuns
    /\ NumChunks(res.out) = 4
    /\ res.out.chunk = 32768 /\ res.out.step = 32
    /\ WritersOf(res.out, 32768) = {<<1, 0>>}

(***************************************************************************)
(* C25: empty slices                                                       *)
(***************************************************************************)

\* The three buffers of the context pass the alignment and size checks for
\* the types the call reinterprets them as.
ScratchPassesChecks ==
    /\ check_align_and_size(PromotedTy, call.ctx.tmp1).st = "Ok"
    /\ check_align_and_size(PromotedTy, call.ctx.tmp2).st = "Ok"
    /\ check_align_and_size(OutputTy, call.ctx.out).st = "Ok"

\* C25: with slice operand(s) of 0 elements and scratch buffers that pass
\* the alignment and size checks, each of the four entry points returns Ok
\* with an empty OperandSlice for a supported op, invokes no chunk body and
\* writes nothing to any buffer.
EmptySlicesSucceed ==
    (/\ Done /\ Promotes
     /\ PromotedTy \in ImplTys(call.op)
     /\ SlicesOfLen(0)
     /\ ScratchPassesChecks)
    => (/\ res.status = "Ok"
        /\ res.val.shape = "slice"
        /\ res.val.ty = OutputTy
        /\ res.val.len = 0
        /\ \A c \in SkelRuns : NumChunks(c) = 0 /\ WritersOf(c, 0) = {}
        /\ \A b \in {res.tmp1, res.tmp2, res.out} : ElemAt(b, 0) = "old")

\* Witness of C25: Lt on an empty U8 slice and an empty I8 slice, which are
\* converted to I16, with an out buffer of one chunk only, has returned an
\* empty Bool slice.
EmptySlicesWitness ==
    /\ Done /\ call.entry = "bool_binop" /\ call.op = "Lt"
    /\ call.lhs.ty = "TU8" /\ call.rhs.ty = "TI8"
    /\ BothSlicesOfLen(0)
    /\ call.ctx.out.bytes = CHUNKBYTES
    /\ res.status = "Ok"
    /\ res.val = OperandSlice("TBool", 0, res.out)
    /\ res.tmp1 \in SkelRuns /\ NumChunks(res.tmp1) = 0

(***************************************************************************)
(* C26: no partial result on error                                         *)
(***************************************************************************)

\* The call returned one of the two errors of EvalError.
ReturnedError == Returned /\ res.status \in {"BadBuffer", "UnsupportedOp"}

\* C26: whenever val_binop, bool_binop, val_unop, bool_unop or conv returns
\* BadBuffer or UnsupportedOp, every byte of out is as it was before the
\* call; only tmp1 and tmp2 may have been written, by an input conversion
\* that completed before the failure.
ErrorLeavesOutUntouched ==
    ReturnedError
    => (/\ res.out = Old
        /\ res.val = NoVal
        /\ \A b \in {res.tmp1, res.tmp2} :
              b # Old => (b.k = "skel" /\ b.fn.kind = "conv"))

\* Witness of C26: Add on a U8 and an I8 slice of CHUNKBYTES elements, with
\* an out buffer too short for the I16 result, converted both inputs into
\* tmp1 and tmp2 and then returned BadBuffer with out untouched.
ErrorAfterConversionWitness ==
    /\ Done /\ call.entry = "val_binop" /\ call.op = "Add"
    /\ call.lhs.ty = "TU8" /\ call.rhs.ty = "TI8"
    /\ BothSlicesOfLen(CHUNKBYTES)
    /\ res.status = "BadBuffer"
    /\ res.tmp1 # Old /\ res.tmp2 # Old
    /\ res.out = Old

\* Witness of C26 for UnsupportedOp: Pow on a U8 and an I8 slice converted
\* the inputs to I16 and then found no kernel; out is untouched.
UnsupportedAfterConversionWitness ==
    /\ Done /\ call.entry = "val_binop" /\ call.op = "Pow"
    /\ call.lhs.ty = "TU8" /\ call.rhs.ty = "TI8"
    /\ BothSlicesOfLen(CHUNKBYTES)
    /\ res.status = "UnsupportedOp"
    /\ res.tmp1 # Old
    /\ res.out = Old

(***************************************************************************)
(* C27: validation precedes opcode dispatch                                *)
(***************************************************************************)

\* The length each used buffer is bound to: tmp1 to the left (or only)
\* slice, tmp2 to the right slice, out to the right slice if there is one
\* and to the left one otherwise.
BoundLen(b) ==
    IF b = "tmp1" THEN call.lhs.len
    ELSE IF call.rhs.shape = "slice" THEN call.rhs.len
    ELSE call.lhs.len

\* A check of the shape of the call fails: a used buffer is misaligned, not
\* a whole number of elements or shorter than the slice it is bound to; the
\* length of a slice operand is not valid for its type, for T or for the
\* output type; or the two slices of val_binop differ in length.
FailsValidation ==
    \/ \E b \in UsedBufs : ~BufHolds(b, BufTy(b), BoundLen(b))
    \/ \E x \in SliceArgs :
          \/ check_ok_length(x.ty, x.len) # "Ok"
          \/ check_ok_length(PromotedTy, x.len) # "Ok"
          \/ check_ok_length(OutputTy, x.len) # "Ok"
    \/ /\ call.entry = "val_binop"
       /\ call.lhs.shape = "slice" /\ call.rhs.shape = "slice"
       /\ call.lhs.len # call.rhs.len

\* C27: in every shape with a slice, scratch validation and input conversion
\* precede opcode dispatch: a call with an unsupported (op, T) and a scratch
\* buffer or length failing validation returns BadBuffer, and UnsupportedOp
\* is returned only by calls whose buffer and length checks all passed (and
\* whose slice inputs were converted).
ValidationPrecedesDispatch ==
    (Done /\ Promotes /\ SliceArgs # {})
    => (/\ (PromotedTy \notin ImplTys(call.op) /\ FailsValidation)
              => res.status = "BadBuffer"
        /\ res.status = "UnsupportedOp"
              => (/\ ~FailsValidation
                  /\ PromotedTy \notin ImplTys(call.op)
                  /\ \A x \in SliceArgs :
                        \E i \in 1..Len(res.ev) :
                           res.ev[i][1] \in {"conv", "conv_noop"}))

\* Witness of C27: Neg on a U16 slice of CHUNKBYTES elements, an opcode U16
\* has no kernel for, with out at an odd address, has returned BadBuffer.
BadBufferBeforeUnsupportedWitness ==
    /\ Done /\ call.entry = "val_unop" /\ call.op = "Neg"
    /\ call.lhs.ty = "TU16" /\ call.lhs.shape = "slice"
    /\ call.lhs.len = CHUNKBYTES
    /\ call.ctx.out.addr % 2 = 1
    /\ FailsValidation
    /\ res.status = "BadBuffer"

(***************************************************************************)
(* C28: a shape accesses only the buffers it needs                         *)
(***************************************************************************)

\* The buffers the shape of the call has no use for.
UnusedBufs == {"tmp1", "tmp2", "out"} \ UsedBufs

\* The call of the state made with another EvalCtx.
CallWithCtx(ctx) ==
    CASE call.entry = "val_binop" ->
            val_binop(call.op, call.lhs, call.rhs, ctx)
      [] call.entry = "bool_binop" ->
            bool_binop(call.op, call.lhs, call.rhs, ctx)
      [] call.entry = "val_unop" -> val_unop(call.op, call.lhs, ctx)
      [] call.entry = "bool_unop" -> bool_unop(call.op, call.lhs, ctx)

\* C28: each shape accesses only the buffers it needs. val_unop, bool_unop
\* and the slice-const shape never read, validate or write tmp2, the
\* const-slice shape never tmp1, constant-only calls no buffer; an unaccessed
\* buffer is unchanged by the call and its alignment or size cannot change
\* the outcome.
UnusedBuffersAreIgnored ==
    (Done /\ Promotes)
    => \A b \in UnusedBufs :
          /\ res[b] = Old
          /\ \A i \in 1..Len(res.ev) :
                ~(/\ Len(res.ev[i]) = 2
                  /\ res.ev[i][1] \in {"tm", "bound", "conv", "conv_noop"}
                  /\ res.ev[i][2] = b)
          /\ \A d \in {GoodBuf} \cup DefectBufs :
                CallWithCtx([call.ctx EXCEPT ![b] = d]) = res

\* Witness of C28: Neg on an I16 slice of CHUNKBYTES elements has returned Ok
\* although tmp2 starts at an odd address, as it does with a sound tmp2.
UnusedTmp2Witness ==
    /\ Done /\ call.entry = "val_unop" /\ call.op = "Neg"
    /\ call.lhs.ty = "TI16" /\ call.lhs.shape = "slice"
    /\ call.lhs.len = CHUNKBYTES
    /\ "tmp2" \in UnusedBufs
    /\ call.ctx.tmp2.addr % 2 = 1
    /\ res.status = "Ok"
    /\ res.tmp2 = Old
    /\ CallWithCtx(GoodCtx) = res

(***************************************************************************)
(* C29: associativity of join                                              *)
(***************************************************************************)

\* The call join(ja0, jb0) has returned jres; c is a third type. The three
\* other calls of join that associativity is about all return a type.
OtherJoinsReturn(c) ==
    /\ join(jres, c) \in ScalarTy
    /\ join(jb0, c) \in ScalarTy
    /\ join(ja0, join(jb0, c)) \in ScalarTy

\* C29 (as claimed): join is associative: for all scalar types a, b, c,
\* join(join(a, b), c) = join(a, join(b, c)). Stated on the triples whose
\* four calls of join return: a call that does not return is the case of C1.
JoinIsAssociative ==
    jpc = "done"
    => \A c \in ScalarTy :
          OtherJoinsReturn(c) => join(jres, c) = join(ja0, join(jb0, c))

\* The families of types in which join is the wider-of order with the floats
\* on top: the unsigned types with the floats, and the signed types with
\* the floats.
UnsignedOrFloat == UnsignedTys \cup FloatTys
SignedOrFloat == SignedTys \cup FloatTys
OneFamily(a, b, c) ==
    \/ {a, b, c} \subseteq UnsignedOrFloat
    \/ {a, b, c} \subseteq SignedOrFloat

\* C29 (amended): for all a, b, c taken from the unsigned and float types,
\* or all from the signed and float types, every call returns and
\* join(join(a, b), c) = join(a, join(b, c)).
JoinIsAssociativeInOneFamily ==
    \A c \in ScalarTy :
       OneFamily(ja0, jb0, c)
       => (/\ jpc \in {"done", "overflow"} => jpc = "done"
           /\ jpc = "done"
              => (/\ OtherJoinsReturn(c)
                  /\ join(jres, c) = join(ja0, join(jb0, c))))

\* Witness of C29: join(U64, F32) has returned F64, and with U128 as the
\* third type both groupings give F64, join(F32, U128) being F64.
JoinAssociativeWitness ==
    /\ jpc = "done"
    /\ ja0 = "TU64" /\ jb0 = "TF32" /\ jres = "TF64"
    /\ OneFamily(ja0, jb0, "TU128")
    /\ join(jb0, "TU128") = "TF64"
    /\ join(jres, "TU128") = "TF64"
    /\ join(ja0, join(jb0, "TU128")) = "TF64"

(***************************************************************************)
(* C30: the output does not depend on the schedule                         *)
(***************************************************************************)

\* A value of a buffer without the names of the evaluations that computed
\* it: what is left is the input elements and the lane functions applied.
Untagged(v) ==
    IF v = OldVal THEN v
    ELSE IF v[1] = "conv" THEN <<"conv", v[3]>>
    ELSE IF v[1] = "op"
         THEN <<"op",
                IF v[3] = OldVal THEN v[3] ELSE <<"conv", v[3][3]>>,
                v[4]>>
    ELSE v
UntaggedBuf(b) == [i \in 0..(MaxN - 1) |-> Untagged(mem[b][i])]

\* The two evaluations are two runs of the same skeletons on equal inputs:
\* the shared input slice, with the same number of chunks.
EqualInputs == sn[1] = sn[2]

\* C30: the contents of the output after a skeleton run are the same for
\* every order and interleaving in which the chunks are scheduled: two runs
\* on equal inputs, whose chunks the workers take in orders of their own,
\* end with equal outputs (and equal converted inputs).
OutputIsScheduleIndependent ==
    (/\ spos # <<>>
     /\ EqualInputs)
    => (/\ (PastRun(1, "op") /\ PastRun(2, "op"))
              => UntaggedBuf(Out(1)) = UntaggedBuf(Out(2))
        /\ (PastRun(1, "conv") /\ PastRun(2, "conv"))
              => UntaggedBuf(Tmp(1)) = UntaggedBuf(Tmp(2)))

\* Witness of C30: both runs of MaxChunks chunks have returned, each after
\* its workers took its chunks in an order of their own, and the outputs
\* are equal and written at every index.
ScheduleIndependenceWitness ==
    /\ spos # <<>>
    /\ sn[1] = MaxChunks /\ sn[2] = MaxChunks
    /\ spos[1] = "returned" /\ spos[2] = "returned"
    /\ UntaggedBuf(Out(1)) = UntaggedBuf(Out(2))
    /\ \A i \in 0..(MaxN - 1) :
          Untagged(mem[Out(1)][i]) = <<"op", <<"conv", <<"in", i>>>>, <<"in", i>>>>

====
